---- MODULE Spec2Model ----
(***************************************************************************)
(* Model of the exploration-data-checker core:                             *)
(*   modules/curve_validator.py    CurveValidator                          *)
(*   modules/file_scanner.py       LASFileScanner / SEGYFileScanner        *)
(*   modules/seismic_2d_validator.py, modules/seismic_3d_validator.py      *)
(*                                                                         *)
(* Conventions.  Sample values of a log curve are carried in              *)
(* ten-thousandths (1.2345 is 12345), so the sentinel -999.25 is          *)
(* -9992500.  NaN is a distinct code that is never compared as a number.  *)
(* Python's None is NoneVal.  Mnemonics and aliases are drawn from a      *)
(* small vocabulary on which Upper is str.upper.  A formatted number is   *)
(* the tuple <<"num", v>> with v in units of the last printed decimal; a  *)
(* text in its place is a one-element tuple.                              *)
(***************************************************************************)
EXTENDS Integers, Sequences, FiniteSets, TLC

VARIABLES
    curve_config,   \* CurveValidator.curve_config: sequence of [key, aliases, description]
    las,            \* the LAS handle passed to the validator: sequence of curves
    results,        \* return value of the last validate_las_file call
    detailed_info,  \* return value of the last get_detailed_curve_info call
    last_op,        \* which operation acted last
    tree,           \* the files under the scanner's root folder: [dir, name]
    root_is_dir,    \* os.path.isdir(root_folder)
    filter_text,    \* scanner filter_text
    filter_enabled, \* scanner filter_enabled
    las_files,      \* LASFileScanner.las_files
    segy_files,     \* SEGYFileScanner.segy_files
    segy,           \* the SEG-Y handle: [tracecount, header, trace]
    geometry_info,  \* return value of Seismic2DValidator._calculate_line_geometry
    null_info,      \* return value of Seismic2DValidator._analyze_null_traces
    trace_quality,  \* return value of Seismic3DValidator._extract_trace_quality
    null_count_3d,  \* return value of Seismic3DValidator._count_null_traces
    read_result,    \* return value of the last read_las_file / read_segy_file call
    current_config, \* SettingsDialog.current_config
    tab_config,     \* LogDataCheckerTab.curve_config
    dialog_open,    \* a SettingsDialog window exists
    raised,         \* the exception that escaped the last call, or NoneVal
    null_value,     \* CurveValidator.null_value
    offered,        \* the JSON document last offered to the dialog
    message,        \* the title of the message box the dialog showed last
    basic_info,     \* return value of Seismic3DValidator.get_basic_info
    qc_info,        \* return value of Seismic3DValidator.get_comprehensive_info
    comprehensive_info, \* return value of Seismic2DValidator.get_comprehensive_info
    clipping,       \* return value of Seismic2DValidator._detect_clipping
    well_name,      \* return value of CurveValidator.get_well_name_from_las
    depth_info,     \* return value of CurveValidator.get_depth_info_from_las
    folder,         \* the files a tab's scan_folder discovered, in discovery order
    tree_rows,      \* the rows of the tab's result table (self.tree)
    counts,         \* total / complete / missing of the last finished LAS scan
    open_handles,   \* the SEG-Y handles that are open, oldest first
    scan_mode,      \* '2D' or '3D': the tab whose scan_folder is running
    scan_pc,        \* position of the running scan_folder, "idle" when none
    scan_i,         \* loop index of the running scan_folder
    popup_pc,       \* position of the detail popup constructor, "idle" when none
    coord_info,     \* return value of Seismic2DValidator._get_coordinate_range
    spacing_info    \* return value of Seismic2DValidator._calculate_trace_spacing

curveVars == <<curve_config, las, results, detailed_info>>

scanVars == <<tree, root_is_dir, filter_text, filter_enabled, las_files, segy_files,
              read_result>>

segyOut == <<geometry_info, null_info, trace_quality, null_count_3d>>

segyVars == <<segy, segyOut>>

settingsVars == <<current_config, tab_config, dialog_open, raised, null_value,
                  offered, message>>

infoVars == <<basic_info, qc_info, comprehensive_info, clipping>>

detectVars == <<coord_info, spacing_info>>

handleVars == <<open_handles, scan_mode, scan_pc, scan_i, popup_pc>>

guiVars == <<folder, tree_rows, counts, handleVars>>

appVars == <<well_name, depth_info, guiVars>>

vars == <<curveVars, scanVars, segyVars, settingsVars, infoVars, detectVars, appVars,
          last_op>>

----------------------------------------------------------------------------
(* Bounds *)

MaxSamples == 2

----------------------------------------------------------------------------
(* Values *)

NullValue == -9992500

NaN == 99999999

NoneVal == "<None>"

SampleValues == {NullValue, NaN, 12345, 750000}

IsNaN(x) == x = NaN

(* str.upper on the vocabulary of mnemonics and aliases *)
Upper(s) ==
    CASE s = "gr" -> "GR"
      [] s = "Rt" -> "RT"
      [] s = "rt" -> "RT"
      [] s = "rd" -> "RD"
      [] s = "cali" -> "CALI"
      [] OTHER -> s

----------------------------------------------------------------------------
(* LAS handle (lasio.LASFile): curves with mnemonic, unit and data *)

(* las[key] for a string key: the data of the curve whose mnemonic is     *)
(* exactly key; KeyError otherwise.                                       *)
LasHasCurve(h, name) == \E i \in DOMAIN h : h[i].mnemonic = name

LasGetItem(h, name) == h[CHOOSE i \in DOMAIN h : h[i].mnemonic = name].data

LasCurveUnit(h, name) == h[CHOOSE i \in DOMAIN h : h[i].mnemonic = name].unit

(* {c.mnemonic.upper(): c for c in las.curves}: a later curve replaces an *)
(* earlier one with the same upper-cased mnemonic.                        *)
AvailableCurves(h) ==
    [m \in {Upper(h[i].mnemonic) : i \in DOMAIN h} |->
        CHOOSE i \in DOMAIN h :
            /\ Upper(h[i].mnemonic) = m
            /\ \A j \in DOMAIN h : Upper(h[j].mnemonic) = m => j <= i]

----------------------------------------------------------------------------
(* CurveValidator *)

RECURSIVE FindFrom(_, _, _)
FindFrom(aliases, available_curves, i) ==
    IF i > Len(aliases) THEN NoneVal
    ELSE IF Upper(aliases[i]) \in DOMAIN available_curves THEN Upper(aliases[i])
    ELSE FindFrom(aliases, available_curves, i + 1)

RECURSIVE FindLastFrom(_, _, _)
FindLastFrom(aliases, available_curves, i) ==
    IF i < 1 THEN NoneVal
    ELSE IF Upper(aliases[i]) \in DOMAIN available_curves THEN Upper(aliases[i])
    ELSE FindLastFrom(aliases, available_curves, i - 1)

(* _find_curve_alias with a fault: the last matching alias wins *)
FindCurveAliasLast(aliases, available_curves) ==
    FindLastFrom(aliases, available_curves, Len(aliases))

_find_curve_alias(aliases, available_curves) ==
    FindFrom(aliases, available_curves, 1)

(* data[data != null_value]: NaN != null_value is True, so NaN is kept *)
ValidData(data) == SelectSeq(data, LAMBDA x : x # NullValue)

SeqRange(s) == {s[i] : i \in DOMAIN s}

SetMin(S) == CHOOSE x \in S : \A y \in S : x <= y

SetMax(S) == CHOOSE x \in S : \A y \in S : x >= y

(* np.nanmin / np.nanmax: NaN entries are ignored; all-NaN gives NaN *)
NanMin(s) ==
    LET nums == {x \in SeqRange(s) : ~IsNaN(x)}
    IN  IF nums = {} THEN NaN ELSE SetMin(nums)

NanMax(s) ==
    LET nums == {x \in SeqRange(s) : ~IsNaN(x)}
    IN  IF nums = {} THEN NaN ELSE SetMax(nums)

(* f"{v:.2f}": hundredths, rounded to nearest; nan stays nan *)
Fmt2(v) == IF IsNaN(v) THEN NaN ELSE (v + 50) \div 100

(* f"{v:.4f}": ten-thousandths; nan stays nan *)
Fmt4(v) == v

(* _validate_curve_data returns (is_valid, reason) *)
(* _validate_curve_data with a fault: the sentinel samples count as data *)
ValidateCurveDataAnySample(h, curve_name) ==
    IF ~LasHasCurve(h, curve_name)
    THEN <<FALSE, <<"Error", "KeyError">>>>
    ELSE LET data == LasGetItem(h, curve_name)
         IN  IF Len(data) = 0
             THEN <<FALSE, <<"No valid data">>>>
             ELSE <<TRUE, <<"Valid", Fmt2(NanMin(data)), Fmt2(NanMax(data))>>>>

_validate_curve_data(h, curve_name) ==
    IF ~LasHasCurve(h, curve_name)
    THEN <<FALSE, <<"Error", "KeyError">>>>
    ELSE LET data == LasGetItem(h, curve_name)
             valid_data == ValidData(data)
         IN  IF Len(valid_data) = 0
             THEN <<FALSE, <<"No valid data">>>>
             ELSE <<TRUE, <<"Valid", Fmt2(NanMin(valid_data)), Fmt2(NanMax(valid_data))>>>>

ConfigKeys(config) == {config[i].key : i \in DOMAIN config}

ConfigInfo(config, k) == config[CHOOSE i \in DOMAIN config : config[i].key = k]

(* validate_las_file with a fault: a key that is not found gets no entry *)
ValidateLasFileSkipMissing(config, h) ==
    LET available_curves == AvailableCurves(h)
        present == {k \in ConfigKeys(config) :
                       _find_curve_alias(ConfigInfo(config, k).aliases, available_curves) # NoneVal}
    IN  [key \in present |->
            LET r == _validate_curve_data(h,
                        _find_curve_alias(ConfigInfo(config, key).aliases, available_curves))
            IN  [status |-> IF r[1] THEN "Y" ELSE "N", reason |-> r[2]]]

validate_las_file(config, h) ==
    LET available_curves == AvailableCurves(h)
    IN  [key \in ConfigKeys(config) |->
            LET info == ConfigInfo(config, key)
                found_alias == _find_curve_alias(info.aliases, available_curves)
            IN  IF found_alias = NoneVal
                THEN [status |-> "N", reason |-> <<"Not found">>]
                ELSE LET r == _validate_curve_data(h, found_alias)
                     IN  [status |-> IF r[1] THEN "Y" ELSE "N", reason |-> r[2]]]

(* the percent-filled computation with a fault: the null samples are counted *)
PercentFilledOfNulls(valid_points, total_points) ==
    IF total_points > 0
    THEN ((total_points - valid_points) * 10000 * 2 + total_points) \div (2 * total_points)
    ELSE 0

(* f"{percent_filled:.2f}": percent in hundredths, rounded to nearest *)
PercentFilled(valid_points, total_points) ==
    IF total_points > 0
    THEN (valid_points * 10000 * 2 + total_points) \div (2 * total_points)
    ELSE 0

Num(v) == <<"num", v>>

NA == <<"N/A">>

Err == <<"Error">>

get_detailed_curve_info(config, h) ==
    LET available_curves == AvailableCurves(h)
    IN  [key \in ConfigKeys(config) |->
            LET info == ConfigInfo(config, key)
                found_alias == _find_curve_alias(info.aliases, available_curves)
            IN  IF found_alias = NoneVal
                THEN [found |-> FALSE, mnemonic |-> "N/A", min |-> NA, max |-> NA,
                      percent_filled |-> NA, unit |-> "N/A",
                      description |-> info.description]
                ELSE IF ~LasHasCurve(h, found_alias)
                THEN [found |-> TRUE, mnemonic |-> found_alias, min |-> Err, max |-> Err,
                      percent_filled |-> Err, unit |-> "N/A",
                      description |-> info.description]
                ELSE LET data == LasGetItem(h, found_alias)
                         valid_data == ValidData(data)
                         u == LasCurveUnit(h, found_alias)
                     IN  [found |-> TRUE, mnemonic |-> found_alias,
                          min |-> IF Len(valid_data) > 0
                                  THEN Num(Fmt4(NanMin(valid_data))) ELSE NA,
                          max |-> IF Len(valid_data) > 0
                                  THEN Num(Fmt4(NanMax(valid_data))) ELSE NA,
                          percent_filled |-> Num(PercentFilled(Len(valid_data), Len(data))),
                          unit |-> IF u # "" THEN u ELSE "N/A",
                          description |-> info.description]]

----------------------------------------------------------------------------
(* Inputs of the curve validator *)

Entry(k, a, d) == [key |-> k, aliases |-> a, description |-> d]

Configs ==
    { <<Entry("CALI", <<"CALI", "CAL">>, "Caliper"),
        Entry("GR", <<"GR", "GAMMA">>, "Gamma Ray")>>,
      <<Entry("RD", <<"RD", "RT">>, "Deep Resistivity")>>,
      <<Entry("RD", <<"rt", "rd">>, "Deep Resistivity"),
        Entry("DT", <<"DTC", "DT">>, "Sonic")>>,
      <<Entry("GR", <<"gr">>, "Gamma Ray")>> }

CurveHead(m, u) == [mnemonic |-> m, unit |-> u]

CurveHeads ==
    { <<CurveHead("GR", "GAPI"), CurveHead("DT", "")>>,
      <<CurveHead("gr", "GAPI"), CurveHead("DT", "US/F")>>,
      <<CurveHead("RD", "OHMM"), CurveHead("RT", "")>>,
      <<CurveHead("RT", "OHMM"), CurveHead("RD", "OHMM")>>,
      <<CurveHead("gr", ""), CurveHead("GR", "GAPI")>>,
      <<CurveHead("Rt", "OHMM")>>,
      <<CurveHead("DT", "")>> }

SampleArrays(n) == [1..n -> SampleValues]

(* every curve of a LAS file has one sample per depth step *)
HandlesOf(heads) ==
    { [i \in DOMAIN heads |->
          [mnemonic |-> heads[i].mnemonic, unit |-> heads[i].unit, data |-> d[i]]] :
      d \in UNION {[DOMAIN heads -> SampleArrays(n)] : n \in 0..MaxSamples} }

LasHandles == UNION {HandlesOf(heads) : heads \in CurveHeads}

NoResult == <<>>

NoHandle == [tracecount |-> 0, header |-> <<>>, trace |-> <<>>]

(* the parts of the state a specification does not exercise *)
CurveIdle ==
    /\ curve_config = <<>>
    /\ las = <<>>
    /\ results = NoResult
    /\ detailed_info = NoResult

ScanIdle ==
    /\ tree = {}
    /\ root_is_dir = TRUE
    /\ filter_text = <<>>
    /\ filter_enabled = FALSE
    /\ las_files = {}
    /\ segy_files = {}
    /\ read_result = NoResult

SegyIdle ==
    /\ segy = NoHandle
    /\ geometry_info = NoResult
    /\ null_info = NoResult
    /\ trace_quality = NoResult
    /\ null_count_3d = NoResult

SettingsIdle ==
    /\ current_config = <<>>
    /\ tab_config = <<>>
    /\ dialog_open = FALSE
    /\ raised = NoneVal
    /\ null_value = NullValue
    /\ offered = <<>>
    /\ message = ""

InfoIdle ==
    /\ basic_info = NoResult
    /\ qc_info = NoResult
    /\ comprehensive_info = NoResult
    /\ clipping = NoResult

DetectIdle ==
    /\ coord_info = NoResult
    /\ spacing_info = NoResult

HandlesIdle ==
    /\ open_handles = <<>>
    /\ scan_mode = ""
    /\ scan_pc = "idle"
    /\ scan_i = 0
    /\ popup_pc = "idle"

GuiIdle ==
    /\ folder = <<>>
    /\ tree_rows = <<>>
    /\ counts = NoResult
    /\ HandlesIdle

AppIdle ==
    /\ well_name = NoResult
    /\ depth_info = NoResult
    /\ GuiIdle

InitCurve ==
    /\ curve_config \in Configs
    /\ las \in LasHandles
    /\ results = NoResult
    /\ detailed_info = NoResult
    /\ last_op = "init"
    /\ ScanIdle
    /\ SegyIdle
    /\ SettingsIdle
    /\ InfoIdle
    /\ DetectIdle
    /\ AppIdle

(* CurveValidator.update_config *)
UpdateConfig ==
    /\ \E new_config \in Configs : curve_config' = new_config
    /\ results' = NoResult
    /\ detailed_info' = NoResult
    /\ last_op' = "update_config"
    /\ UNCHANGED <<las, scanVars, segyVars, settingsVars, infoVars, detectVars, appVars>>

ValidateLasFile ==
    /\ results' = validate_las_file(curve_config, las)
    /\ detailed_info' = NoResult
    /\ last_op' = "validate_las_file"
    /\ UNCHANGED <<curve_config, las, scanVars, segyVars, settingsVars, infoVars, detectVars, appVars>>

GetDetailedCurveInfo ==
    /\ detailed_info' = get_detailed_curve_info(curve_config, las)
    /\ results' = NoResult
    /\ last_op' = "get_detailed_curve_info"
    /\ UNCHANGED <<curve_config, las, scanVars, segyVars, settingsVars, infoVars, detectVars, appVars>>

NextCurve ==
    \/ UpdateConfig
    \/ ValidateLasFile
    \/ GetDetailedCurveInfo

SpecCurve == InitCurve /\ [][NextCurve]_vars

----------------------------------------------------------------------------
(* Properties of the curve validator *)

UpperMnemonics(h) == {Upper(h[i].mnemonic) : i \in DOMAIN h}

(* positions of the aliases that are, case-insensitively, in the file *)
MatchingAliases(aliases, h) ==
    {i \in DOMAIN aliases : Upper(aliases[i]) \in UpperMnemonics(h)}

FirstMatch(aliases, h) == Upper(aliases[SetMin(MatchingAliases(aliases, h))])

(* the curve object a key resolves to: available_curves[found_alias] *)
ResolvedCurve(aliases, h) == h[AvailableCurves(h)[FirstMatch(aliases, h)]]

AllNull(data) == \A i \in DOMAIN data : data[i] = NullValue

NoNull(data) == \A i \in DOMAIN data : data[i] # NullValue

(* C1: validate_las_file returns a mapping whose key set is exactly the   *)
(* key set of the config, each key with a status and a reason, the status *)
(* being "Y" or "N".                                                      *)
C1_MappingTotality ==
    last_op = "validate_las_file" =>
        /\ DOMAIN results = ConfigKeys(curve_config)
        /\ \A k \in DOMAIN results :
              /\ DOMAIN results[k] = {"status", "reason"}
              /\ results[k].status \in {"Y", "N"}

C1_Witness ==
    /\ last_op = "validate_las_file"
    /\ Cardinality(ConfigKeys(curve_config)) = 2
    /\ \E k \in DOMAIN results : results[k].reason = <<"Not found">>
    /\ \E k \in DOMAIN results : results[k].status = "Y"

(* C2: each key is bound to the earliest alias of its list whose          *)
(* upper-cased form is the upper-cased mnemonic of a curve of the file:   *)
(* get_detailed_curve_info reports that alias as the mnemonic, and        *)
(* validate_las_file reports the outcome of validating under that alias.  *)
C2_FirstMatchBinding ==
    /\ last_op = "get_detailed_curve_info" =>
          \A k \in ConfigKeys(curve_config) :
              LET a == ConfigInfo(curve_config, k).aliases
              IN  IF MatchingAliases(a, las) = {}
                  THEN ~detailed_info[k].found
                  ELSE /\ detailed_info[k].found
                       /\ detailed_info[k].mnemonic = FirstMatch(a, las)
    /\ last_op = "validate_las_file" =>
          \A k \in ConfigKeys(curve_config) :
              LET a == ConfigInfo(curve_config, k).aliases
              IN  IF MatchingAliases(a, las) = {}
                  THEN results[k].reason = <<"Not found">>
                  ELSE results[k].reason = _validate_curve_data(las, FirstMatch(a, las))[2]

(* aliases RD, RT (in either order) with both curves in the file, whose *)
(* data differ                                                          *)
C2_Witness ==
    /\ last_op = "get_detailed_curve_info"
    /\ \E k \in ConfigKeys(curve_config) :
          LET a == ConfigInfo(curve_config, k).aliases
          IN  /\ Cardinality(MatchingAliases(a, las)) = 2
              /\ detailed_info[k].mnemonic = Upper(a[1])
              /\ detailed_info[k].percent_filled = Num(10000)
    /\ \E i, j \in DOMAIN las : NoNull(las[i].data) /\ ~NoNull(las[j].data)

(* C3: a key that resolves to a curve whose samples are all the null      *)
(* sentinel (or that has no samples) gets status "N" with reason          *)
(* "No valid data".                                                       *)
C3_AllNullNoValidData ==
    last_op = "validate_las_file" =>
        \A k \in ConfigKeys(curve_config) :
            LET a == ConfigInfo(curve_config, k).aliases
            IN  (MatchingAliases(a, las) # {} /\ AllNull(ResolvedCurve(a, las).data))
                    => results[k] = [status |-> "N", reason |-> <<"No valid data">>]

(* C4 as stated: for every found curve percent_filled is in [0,100], and  *)
(* is 100.00 whenever no sample equals the sentinel, an empty sample      *)
(* array included.                                                        *)
C4_PercentFilledAsStated ==
    last_op = "get_detailed_curve_info" =>
        \A k \in ConfigKeys(curve_config) :
            detailed_info[k].found =>
                LET a == ConfigInfo(curve_config, k).aliases
                    pf == detailed_info[k].percent_filled
                IN  /\ pf[1] = "num"
                    /\ pf[2] >= 0 /\ pf[2] <= 10000
                    /\ NoNull(ResolvedCurve(a, las).data) => pf[2] = 10000

(* C4 amended: for every found curve whose data could be read,            *)
(* percent_filled is in [0,100]; it is 100.00 when the sample array is    *)
(* not empty and holds no sentinel, and 0.00 when the array is empty; a   *)
(* found curve whose data could not be read reports "Error".              *)
C4_PercentFilled ==
    last_op = "get_detailed_curve_info" =>
        \A k \in ConfigKeys(curve_config) :
            detailed_info[k].found =>
                LET pf == detailed_info[k].percent_filled
                    m == detailed_info[k].mnemonic
                IN  IF ~LasHasCurve(las, m)
                    THEN pf = Err
                    ELSE LET data == LasGetItem(las, m)
                         IN  /\ pf[1] = "num"
                             /\ pf[2] >= 0 /\ pf[2] <= 10000
                             /\ (Len(data) > 0 /\ NoNull(data)) => pf[2] = 10000
                             /\ Len(data) = 0 => pf[2] = 0

C4_Witness ==
    /\ last_op = "get_detailed_curve_info"
    /\ \E k \in ConfigKeys(curve_config) :
          /\ detailed_info[k].found
          /\ LasHasCurve(las, detailed_info[k].mnemonic)
          /\ Len(LasGetItem(las, detailed_info[k].mnemonic)) >= 2
          /\ NoNull(LasGetItem(las, detailed_info[k].mnemonic))
          /\ detailed_info[k].percent_filled = Num(10000)
    /\ \E i \in DOMAIN las : ~NoNull(las[i].data)

(* C10: a key none of whose aliases is in the file gets status "N" with   *)
(* reason "Not found"; a key whose resolved curve has at least one        *)
(* non-sentinel sample gets status "Y" with reason "Valid (min-max)" of   *)
(* the non-sentinel samples.                                              *)
C10_NotFoundOrValid ==
    last_op = "validate_las_file" =>
        \A k \in ConfigKeys(curve_config) :
            LET a == ConfigInfo(curve_config, k).aliases
            IN  IF MatchingAliases(a, las) = {}
                THEN results[k] = [status |-> "N", reason |-> <<"Not found">>]
                ELSE LET vd == ValidData(ResolvedCurve(a, las).data)
                     IN  Len(vd) > 0 =>
                            results[k] = [status |-> "Y",
                                          reason |-> <<"Valid", Fmt2(NanMin(vd)), Fmt2(NanMax(vd))>>]

----------------------------------------------------------------------------
(* File discovery: LASFileScanner / SEGYFileScanner                       *)
(*                                                                         *)
(* File names and the filter text are sequences of characters, so that    *)
(* lower(), upper(), endswith() and the substring test are computed.      *)

LowerChar(c) ==
    CASE c = "A" -> "a" [] c = "G" -> "g" [] c = "L" -> "l" [] c = "R" -> "r"
      [] c = "S" -> "s" [] c = "Y" -> "y" [] c = "E" -> "e" [] c = "T" -> "t"
      [] c = "X" -> "x" [] OTHER -> c

UpperChar(c) ==
    CASE c = "a" -> "A" [] c = "g" -> "G" [] c = "l" -> "L" [] c = "r" -> "R"
      [] c = "s" -> "S" [] c = "y" -> "Y" [] c = "e" -> "E" [] c = "t" -> "T"
      [] c = "x" -> "X" [] OTHER -> c

StrLower(s) == [i \in DOMAIN s |-> LowerChar(s[i])]

StrUpper(s) == [i \in DOMAIN s |-> UpperChar(s[i])]

(* s.endswith(suffix) *)
EndsWith(s, suffix) ==
    /\ Len(suffix) <= Len(s)
    /\ SubSeq(s, Len(s) - Len(suffix) + 1, Len(s)) = suffix

(* sub in s *)
Contains(s, sub) ==
    \E k \in 0..(Len(s) - Len(sub)) : SubSeq(s, k + 1, k + Len(sub)) = sub

ExtLas == <<".", "l", "a", "s">>

ExtSgy == <<".", "s", "g", "y">>

ExtSegy == <<".", "s", "e", "g", "y">>

(* find_all_las_files with a fault: the text filters even when the switch is off *)
FindAllLasFilesIgnoringSwitch(is_dir, t, enabled, text) ==
    IF ~is_dir THEN {}
    ELSE {f \in t :
            /\ EndsWith(StrLower(f.name), ExtLas)
            /\ ~(text # <<>> /\ ~Contains(StrUpper(f.name), StrUpper(text)))}

(* find_all_las_files: os.walk visits every directory under the root; the *)
(* result is the collection of joined paths (its order is os.walk's)      *)
find_all_las_files(is_dir, t, enabled, text) ==
    IF ~is_dir THEN {}
    ELSE {f \in t :
            /\ EndsWith(StrLower(f.name), ExtLas)
            /\ ~((enabled /\ text # <<>>) /\ ~Contains(StrUpper(f.name), StrUpper(text)))}

find_all_segy_files(is_dir, t, enabled, text) ==
    IF ~is_dir THEN {}
    ELSE {f \in t :
            /\ (EndsWith(StrLower(f.name), ExtSgy) \/ EndsWith(StrLower(f.name), ExtSegy))
            /\ ~((enabled /\ text # <<>>) /\ ~Contains(StrUpper(f.name), StrUpper(text)))}

MaxFiles == 3

FileNames ==
    { <<"a", ".", "l", "a", "s">>,
      <<"G", "R", ".", "L", "A", "S">>,
      <<"g", "r", ".", "t", "x", "t">>,
      <<"l", "a", "s">>,
      <<"x", ".", "s", "g", "y">>,
      <<"G", "R", ".", "S", "E", "G", "Y">> }

Dirs == {"root", "root/sub"}

FilterTexts == { <<>>, <<"g", "r">>, <<"A">> }

Paths == [dir : Dirs, name : FileNames]

Trees == {t \in SUBSET Paths : Cardinality(t) <= MaxFiles}

InitScan ==
    /\ root_is_dir \in BOOLEAN
    /\ tree \in IF root_is_dir THEN Trees ELSE {{}}
    /\ filter_text \in FilterTexts
    /\ filter_enabled \in BOOLEAN
    /\ las_files = {}
    /\ segy_files = {}
    /\ read_result = NoResult
    /\ last_op = "init"
    /\ CurveIdle
    /\ SegyIdle
    /\ SettingsIdle
    /\ InfoIdle
    /\ DetectIdle
    /\ AppIdle

FindAllLasFiles ==
    /\ las_files' = find_all_las_files(root_is_dir, tree, filter_enabled, filter_text)
    /\ last_op' = "find_all_las_files"
    /\ UNCHANGED <<tree, root_is_dir, filter_text, filter_enabled, segy_files, read_result, curveVars, segyVars,
                   settingsVars, infoVars, detectVars, appVars>>

FindAllSegyFiles ==
    /\ segy_files' = find_all_segy_files(root_is_dir, tree, filter_enabled, filter_text)
    /\ last_op' = "find_all_segy_files"
    /\ UNCHANGED <<tree, root_is_dir, filter_text, filter_enabled, las_files, read_result, curveVars, segyVars,
                   settingsVars, infoVars, detectVars, appVars>>

NextScan ==
    \/ FindAllLasFiles
    \/ FindAllSegyFiles

SpecScan == InitScan /\ [][NextScan]_vars

HasExt(f, exts) == \E e \in exts : EndsWith(StrLower(f.name), e)

(* C5: with the filter enabled and an empty filter text, discovery        *)
(* returns no file.                                                       *)
C5_EmptyFilterExcludesAll ==
    (filter_enabled /\ filter_text = <<>>) =>
        /\ last_op = "find_all_las_files" => las_files = {}
        /\ last_op = "find_all_segy_files" => segy_files = {}

(* C6: with the filter off, discovery returns every file under the root   *)
(* whose lower-cased name ends with the extension, whatever the filter    *)
(* text; with the filter on and a non-empty text it returns exactly those *)
(* of them whose upper-cased name contains the upper-cased text.          *)
C6_FilterSemantics ==
    LET wanted(exts) ==
            IF filter_enabled
            THEN {f \in tree : HasExt(f, exts)
                                /\ Contains(StrUpper(f.name), StrUpper(filter_text))}
            ELSE {f \in tree : HasExt(f, exts)}
    IN  (~filter_enabled \/ filter_text # <<>>) =>
            /\ last_op = "find_all_las_files" => las_files = wanted({ExtLas})
            /\ last_op = "find_all_segy_files" => segy_files = wanted({ExtSgy, ExtSegy})

(* the filter is off, its text is not empty, and a file in a              *)
(* sub-directory whose name lacks the text is discovered                  *)
C6_Witness ==
    /\ last_op = "find_all_las_files"
    /\ ~filter_enabled
    /\ filter_text # <<>>
    /\ \E f \in las_files :
          /\ f.dir = "root/sub"
          /\ ~Contains(StrUpper(f.name), StrUpper(filter_text))
    /\ \E f \in tree : f \notin las_files

----------------------------------------------------------------------------
(* Seismic2DValidator._calculate_line_geometry                            *)
(*                                                                         *)
(* Trace-header coordinates are integers.  Lengths (np.sqrt results) are  *)
(* carried in fixed point with Scale units per metre, rounded to nearest; *)
(* the sinuosity is the exact quotient of two such lengths, kept as the   *)
(* pair <<numerator, denominator>> and compared by cross-multiplication.  *)

Scale == 1000

RECURSIVE ISqrtSearch(_, _, _)
ISqrtSearch(n, lo, hi) ==
    IF lo = hi THEN lo
    ELSE LET mid == (lo + hi + 1) \div 2
         IN  IF mid * mid <= n
             THEN ISqrtSearch(n, mid, hi)
             ELSE ISqrtSearch(n, lo, mid - 1)

(* np.sqrt(n) for an integer n, in 1/Scale units, rounded to nearest *)
Sqrt(n) ==
    LET N == n * Scale * Scale
        r == ISqrtSearch(N, 0, 46340)
    IN  IF N - r * r > r THEN r + 1 ELSE r

MinOf(a, b) == IF a < b THEN a ELSE b

MaxOf(a, b) == IF a > b THEN a ELSE b

(* np.linspace(0, tracecount - 1, n, dtype=int): n indices from the first *)
(* trace to the last, truncated to integers (0-based)                     *)
(* The code multiplies i by the float step (tracecount-1)/(n-1); for the *)
(* arguments below (all there are up to tracecount 120) the product of   *)
(* an exact integer falls just under it and truncates to one less.       *)
LinspaceFloatShort == { <<109, 100, 55>>, <<120, 50, 21>>, <<120, 50, 42>> }

Linspace(tracecount, n) ==
    [i \in 1..n |->
        IF n = 1 THEN 0
        ELSE ((i - 1) * (tracecount - 1)) \div (n - 1)
             - (IF <<tracecount, n, i - 1>> \in LinspaceFloatShort THEN 1 ELSE 0)]

CoordCandidates == <<"CDP", "Source", "Group">>

(* (x != 0 or y != 0) and not isnan(x) and not isnan(y); header words are *)
(* integers and never NaN                                                 *)
ValidCoord(p) == p[1] # 0 \/ p[2] # 0

(* len(sample_check) for one candidate pair over the first 50 traces *)
SampleCheck(h, f) ==
    Cardinality({i \in 1..MinOf(50, h.tracecount) : ValidCoord(h.header[i][f])})

RECURSIVE ChooseFrom(_, _)
ChooseFrom(h, c) ==
    IF c > Len(CoordCandidates) THEN NoneVal
    ELSE IF SampleCheck(h, CoordCandidates[c]) > 5 THEN CoordCandidates[c]
    ELSE ChooseFrom(h, c + 1)

(* the field detection with a fault: five valid traces are enough *)
RECURSIVE ChooseFromFive(_, _)
ChooseFromFive(h, c) ==
    IF c > Len(CoordCandidates) THEN NoneVal
    ELSE IF SampleCheck(h, CoordCandidates[c]) >= 5 THEN CoordCandidates[c]
    ELSE ChooseFromFive(h, c + 1)

ChosenFieldsFive(h) == ChooseFromFive(h, 1)

ChosenFields(h) == ChooseFrom(h, 1)

(* the valid coordinates of the sampled traces, in trace order *)
CollectCoords(h, f) ==
    LET sample_size == MinOf(200, h.tracecount)
        indices == Linspace(h.tracecount, sample_size)
    IN  SelectSeq([i \in 1..sample_size |-> h.header[indices[i] + 1][f]], ValidCoord)

SqDist(p, q) == (q[1] - p[1]) * (q[1] - p[1]) + (q[2] - p[2]) * (q[2] - p[2])

StraightDist(coords) == Sqrt(SqDist(coords[1], coords[Len(coords)]))

RECURSIVE SumSegments(_, _)
SumSegments(coords, i) ==
    IF i >= Len(coords) THEN 0
    ELSE Sqrt(SqDist(coords[i], coords[i + 1])) + SumSegments(coords, i + 1)

TotalLength(coords) == SumSegments(coords, 1)

(* the sinuosity quotient with a fault: straight distance over path length *)
SinuosityInverted(total_length, straight_dist) ==
    IF straight_dist > 0 /\ total_length > 0
    THEN <<straight_dist, total_length>> ELSE <<1, 1>>

(* total_length / straight_dist if straight_dist > 0 else 1.0 *)
Sinuosity(total_length, straight_dist) ==
    IF straight_dist > 0 THEN <<total_length, straight_dist>> ELSE <<1, 1>>

(* s < p/q for a quotient s *)
Less(s, p, q) == s[1] * q < s[2] * p

(* the shape bands with a fault: the bands are closed on their upper bound *)
ShapeUpperInclusive(s) ==
    IF ~Less(<<105, 100>>, s[1], s[2]) THEN "Straight"
    ELSE IF ~Less(<<12, 10>>, s[1], s[2]) THEN "Nearly Straight"
    ELSE IF ~Less(<<15, 10>>, s[1], s[2]) THEN "Curved"
    ELSE "Highly Curved"

Shape(s) ==
    IF Less(s, 105, 100) THEN "Straight"
    ELSE IF Less(s, 12, 10) THEN "Nearly Straight"
    ELSE IF Less(s, 15, 10) THEN "Curved"
    ELSE "Highly Curved"

(* the order classification with a fault: both axes must be monotonic *)
CoordOrderBothAxes(coords) ==
    LET n == Len(coords)
        x_increasing == \A i \in 1..(n - 1) : coords[i][1] <= coords[i + 1][1]
        x_decreasing == \A i \in 1..(n - 1) : coords[i][1] >= coords[i + 1][1]
        y_increasing == \A i \in 1..(n - 1) : coords[i][2] <= coords[i + 1][2]
        y_decreasing == \A i \in 1..(n - 1) : coords[i][2] >= coords[i + 1][2]
    IN  IF (x_increasing \/ x_decreasing) /\ (y_increasing \/ y_decreasing)
        THEN "Sequential" ELSE "Irregular"

CoordOrder(coords) ==
    LET n == Len(coords)
        x_increasing == \A i \in 1..(n - 1) : coords[i][1] <= coords[i + 1][1]
        x_decreasing == \A i \in 1..(n - 1) : coords[i][1] >= coords[i + 1][1]
        y_increasing == \A i \in 1..(n - 1) : coords[i][2] <= coords[i + 1][2]
        y_decreasing == \A i \in 1..(n - 1) : coords[i][2] >= coords[i + 1][2]
    IN  IF x_increasing \/ x_decreasing \/ y_increasing \/ y_decreasing
        THEN "Sequential" ELSE "Irregular"

(* f"{straight_dist:.2f}": hundredths of a metre *)
FmtMetres2(len) == (2 * len * 100 + Scale) \div (2 * Scale)

(* f"{total_length / 1000:.3f}": thousandths of a kilometre *)
FmtKm3(len) == (2 * len + Scale) \div (2 * Scale)

(* f"{sinuosity:.3f}": thousandths *)
FmtRatio3(s) == (2 * s[1] * 1000 + s[2]) \div (2 * s[2])

Txt(t) == <<t>>

(* _calculate_line_geometry with a fault: the CDP pair is used without    *)
(* the detection                                                          *)
LineGeometryUnchecked(h) ==
    LET coords == CollectCoords(h, "CDP")
    IN  IF Len(coords) < 2
        THEN [straight_distance |-> Txt("Insufficient coordinates"),
              total_length |-> Txt("Insufficient coordinates"),
              sinuosity |-> Txt("N/A"), shape |-> "Unknown", order |-> "Unknown"]
        ELSE [straight_distance |-> Num(FmtMetres2(StraightDist(coords))),
              total_length |-> Num(FmtKm3(TotalLength(coords))),
              sinuosity |-> Num(FmtRatio3(Sinuosity(TotalLength(coords),
                                                    StraightDist(coords)))),
              shape |-> Shape(Sinuosity(TotalLength(coords), StraightDist(coords))),
              order |-> CoordOrder(coords)]

_calculate_line_geometry(h) ==
    LET chosen_fields == ChosenFields(h)
    IN  IF chosen_fields = NoneVal
        THEN [straight_distance |-> Txt("No coordinates found"),
              total_length |-> Txt("No coordinates found"),
              sinuosity |-> Txt("N/A"), shape |-> "Unknown", order |-> "Unknown"]
        ELSE LET coords == CollectCoords(h, chosen_fields)
             IN  IF Len(coords) < 2
                 THEN [straight_distance |-> Txt("Insufficient coordinates"),
                       total_length |-> Txt("Insufficient coordinates"),
                       sinuosity |-> Txt("N/A"), shape |-> "Unknown", order |-> "Unknown"]
                 ELSE LET straight_dist == StraightDist(coords)
                          total_length == TotalLength(coords)
                          sinuosity == Sinuosity(total_length, straight_dist)
                      IN  [straight_distance |-> Num(FmtMetres2(straight_dist)),
                           total_length |-> Num(FmtKm3(total_length)),
                           sinuosity |-> Num(FmtRatio3(sinuosity)),
                           shape |-> Shape(sinuosity),
                           order |-> CoordOrder(coords)]

----------------------------------------------------------------------------
(* Inputs of the line geometry: a 2D line of MaxLineTraces traces whose   *)
(* coordinates are carried by one of the three header field pairs         *)

MaxLineTraces == 6

Points == { <<0, 0>>, <<1, 1>>, <<21, 20>>, <<41, 1>>, <<42, 1>> }

Carriers == {"CDP", "Source", "Group", "none"}

LiveTrace == <<1, -1>>

LineHeader(p, carrier) ==
    [f \in {"CDP", "Source", "Group"} |-> IF f = carrier THEN p ELSE <<0, 0>>]

LineHandle(line, carrier) ==
    [tracecount |-> Len(line),
     header |-> [i \in DOMAIN line |-> LineHeader(line[i], carrier)],
     trace |-> [i \in DOMAIN line |-> LiveTrace]]

LineHandles ==
    {LineHandle(line, carrier) : line \in [1..MaxLineTraces -> Points], carrier \in Carriers}

InitGeom ==
    /\ segy \in LineHandles
    /\ geometry_info = NoResult
    /\ null_info = NoResult
    /\ trace_quality = NoResult
    /\ null_count_3d = NoResult
    /\ last_op = "init"
    /\ CurveIdle
    /\ ScanIdle
    /\ SettingsIdle
    /\ InfoIdle
    /\ DetectIdle
    /\ AppIdle

CalculateLineGeometry ==
    /\ geometry_info' = _calculate_line_geometry(segy)
    /\ null_info' = NoResult
    /\ trace_quality' = NoResult
    /\ null_count_3d' = NoResult
    /\ last_op' = "_calculate_line_geometry"
    /\ UNCHANGED <<segy, curveVars, scanVars, settingsVars, infoVars, detectVars, appVars>>

NextGeom == CalculateLineGeometry

SpecGeom == InitGeom /\ [][NextGeom]_vars

(* the coordinates the geometry is computed from *)
GeomCoords == CollectCoords(segy, ChosenFields(segy))

GeomNumeric ==
    /\ last_op = "_calculate_line_geometry"
    /\ geometry_info.sinuosity[1] = "num"

(* C7: a numeric reported sinuosity is at least 1.000, and it is exactly  *)
(* 1.000 when the first and the last sampled coordinate coincide,         *)
(* whatever the path length.                                              *)
C7_SinuosityAtLeastOne ==
    GeomNumeric =>
        /\ geometry_info.sinuosity[2] >= 1000
        /\ GeomCoords[1] = GeomCoords[Len(GeomCoords)]
              => geometry_info.sinuosity[2] = 1000

(* a bent path over segments of irrational length *)
C7_Witness ==
    /\ GeomNumeric
    /\ geometry_info.sinuosity[2] > 1000
    /\ geometry_info.sinuosity[2] < 1500
    /\ \E i \in DOMAIN GeomCoords : GeomCoords[i] = <<21, 20>>

(* C8: the line shape is decided by the sinuosity s alone, in bands       *)
(* closed on their lower bound: s < 1.05 Straight, 1.05 <= s < 1.2        *)
(* Nearly Straight, 1.2 <= s < 1.5 Curved, s >= 1.5 Highly Curved.        *)
C8_ShapeBands ==
    GeomNumeric =>
        LET total == TotalLength(GeomCoords)
            straight == StraightDist(GeomCoords)
            num == IF straight > 0 THEN total ELSE 1
            den == IF straight > 0 THEN straight ELSE 1
        IN  /\ (100 * num < 105 * den) => geometry_info.shape = "Straight"
            /\ (100 * num >= 105 * den /\ 10 * num < 12 * den)
                  => geometry_info.shape = "Nearly Straight"
            /\ (10 * num >= 12 * den /\ 10 * num < 15 * den)
                  => geometry_info.shape = "Curved"
            /\ (10 * num >= 15 * den) => geometry_info.shape = "Highly Curved"

(* a line whose sinuosity is exactly 1.05: 42 m of path over 40 m *)
C8_Witness ==
    /\ GeomNumeric
    /\ 100 * TotalLength(GeomCoords) = 105 * StraightDist(GeomCoords)
    /\ StraightDist(GeomCoords) > 0
    /\ geometry_info.shape = "Nearly Straight"

(* a sequence of numbers that never rises after a fall nor falls after a *)
(* rise                                                                   *)
Monotonic(v) ==
    \/ \A i, j \in DOMAIN v : i < j => v[i] <= v[j]
    \/ \A i, j \in DOMAIN v : i < j => v[i] >= v[j]

RECURSIVE Gcd(_, _)
Gcd(a, b) == IF b = 0 THEN a ELSE Gcd(b, a % b)

(* two quotients have the same value *)
SameQuotient(s, t) ==
    /\ s[1] \div Gcd(s[1], s[2]) = t[1] \div Gcd(t[1], t[2])
    /\ s[2] \div Gcd(s[1], s[2]) = t[2] \div Gcd(t[1], t[2])

SinuosityOf(h) ==
    LET coords == CollectCoords(h, ChosenFields(h))
    IN  Sinuosity(TotalLength(coords), StraightDist(coords))

(* lines of either order to compare a line with: a single point, a line   *)
(* that returns to its first point, a straight line, two bent lines       *)
ReferenceLines ==
    { LineHandle(<< <<1, 1>>, <<1, 1>>, <<1, 1>>, <<1, 1>>, <<1, 1>>, <<1, 1>> >>, "CDP"),
      LineHandle(<< <<1, 1>>, <<21, 20>>, <<1, 1>>, <<21, 20>>, <<1, 1>>, <<1, 1>> >>, "CDP"),
      LineHandle(<< <<1, 1>>, <<1, 1>>, <<1, 1>>, <<41, 1>>, <<42, 1>>, <<42, 1>> >>, "Source"),
      LineHandle(<< <<1, 1>>, <<21, 20>>, <<41, 1>>, <<42, 1>>, <<42, 1>>, <<42, 1>> >>, "CDP"),
      LineHandle(<< <<21, 20>>, <<1, 1>>, <<21, 20>>, <<41, 1>>, <<21, 20>>, <<42, 1>> >>, "Group") }

----------------------------------------------------------------------------
(* Null / dead trace statistics (2D _analyze_null_traces, 3D              *)
(* _extract_trace_quality and _count_null_traces)                         *)

(* np.all(trace == 0) *)
AllZero(trace) == \A i \in DOMAIN trace : trace[i] = 0

(* np.all(np.isnan(trace)) *)
AllNaN(trace) == \A i \in DOMAIN trace : IsNaN(trace[i])

(* np.std(trace) < 1e-10: the deviation of integer samples is below the  *)
(* threshold only when they are all equal; with a NaN sample it is NaN   *)
(* and the comparison is False                                            *)
StdBelowEps(trace) ==
    /\ \A i \in DOMAIN trace : ~IsNaN(trace[i])
    /\ \A i, j \in DOMAIN trace : trace[i] = trace[j]

(* The arguments <<d, m, tracecount>>, up to tracecount 112, for which    *)
(* the float product (d / m) * tracecount of an exact integer falls just  *)
(* under that integer, so that int() gives one less: int(15/22*22) = 14.  *)
FloatTruncShort ==
    {
      <<15, 22, 22>>, <<13, 23, 23>>, <<15, 26, 26>>, <<31, 39, 39>>,
      <<23, 43, 43>>, <<31, 43, 43>>, <<15, 44, 44>>, <<30, 44, 44>>,
      <<13, 45, 45>>, <<26, 45, 45>>, <<13, 46, 46>>, <<26, 46, 46>>,
      <<3, 47, 47>>, <<6, 47, 47>>, <<12, 47, 47>>, <<24, 47, 47>>,
      <<31, 47, 47>>, <<1, 49, 49>>, <<2, 49, 49>>, <<4, 49, 49>>,
      <<8, 49, 49>>, <<16, 49, 49>>, <<27, 49, 49>>, <<32, 49, 49>>,
      <<29, 50, 50>>, <<31, 51, 51>>, <<15, 52, 52>>, <<30, 52, 52>>,
      <<7, 55, 55>>, <<14, 55, 55>>, <<15, 55, 55>>, <<28, 55, 55>>,
      <<29, 55, 55>>, <<30, 55, 55>>, <<31, 55, 55>>, <<31, 58, 58>>,
      <<29, 67, 67>>, <<58, 67, 67>>, <<11, 69, 69>>, <<22, 69, 69>>,
      <<44, 69, 69>>, <<63, 69, 69>>, <<47, 70, 70>>, <<7, 71, 71>>,
      <<14, 71, 71>>, <<28, 71, 71>>, <<31, 71, 71>>, <<56, 71, 71>>,
      <<62, 71, 71>>, <<39, 74, 74>>, <<43, 74, 74>>, <<55, 75, 75>>,
      <<53, 76, 76>>, <<5, 77, 77>>, <<10, 77, 77>>, <<20, 77, 77>>,
      <<39, 77, 77>>, <<40, 77, 77>>, <<31, 78, 78>>, <<45, 78, 78>>,
      <<62, 78, 78>>, <<21, 79, 79>>, <<42, 79, 79>>, <<47, 79, 79>>,
      <<47, 82, 82>>, <<57, 82, 82>>, <<7, 83, 83>>, <<14, 83, 83>>,
      <<28, 83, 83>>, <<53, 83, 83>>, <<56, 83, 83>>, <<51, 84, 84>>,
      <<59, 84, 84>>, <<49, 85, 85>>, <<57, 85, 85>>, <<23, 86, 86>>,
      <<31, 86, 86>>, <<46, 86, 86>>, <<57, 86, 86>>, <<62, 86, 86>>,
      <<51, 87, 87>>, <<59, 87, 87>>, <<15, 88, 88>>, <<30, 88, 88>>,
      <<49, 88, 88>>, <<60, 88, 88>>, <<47, 89, 89>>, <<51, 89, 89>>,
      <<55, 89, 89>>, <<59, 89, 89>>, <<63, 89, 89>>, <<13, 90, 90>>,
      <<26, 90, 90>>, <<49, 90, 90>>, <<52, 90, 90>>, <<63, 90, 90>>,
      <<29, 91, 91>>, <<58, 91, 91>>, <<61, 91, 91>>, <<13, 92, 92>>,
      <<26, 92, 92>>, <<52, 92, 92>>, <<61, 92, 92>>, <<13, 93, 93>>,
      <<26, 93, 93>>, <<51, 93, 93>>, <<52, 93, 93>>, <<63, 93, 93>>,
      <<3, 94, 94>>, <<6, 94, 94>>, <<12, 94, 94>>, <<24, 94, 94>>,
      <<31, 94, 94>>, <<48, 94, 94>>, <<51, 94, 94>>, <<62, 94, 94>>,
      <<7, 95, 95>>, <<14, 95, 95>>, <<28, 95, 95>>, <<53, 95, 95>>,
      <<56, 95, 95>>, <<63, 95, 95>>, <<7, 97, 97>>, <<14, 97, 97>>,
      <<25, 97, 97>>, <<28, 97, 97>>, <<31, 97, 97>>, <<50, 97, 97>>,
      <<53, 97, 97>>, <<56, 97, 97>>, <<59, 97, 97>>, <<62, 97, 97>>,
      <<1, 98, 98>>, <<2, 98, 98>>, <<4, 98, 98>>, <<8, 98, 98>>,
      <<16, 98, 98>>, <<27, 98, 98>>, <<32, 98, 98>>, <<54, 98, 98>>,
      <<55, 98, 98>>, <<64, 98, 98>>, <<27, 99, 99>>, <<54, 99, 99>>,
      <<59, 99, 99>>, <<29, 50, 100>>, <<29, 100, 100>>, <<57, 100, 100>>,
      <<58, 100, 100>>, <<31, 51, 102>>, <<15, 52, 104>>, <<30, 52, 104>>,
      <<7, 55, 110>>, <<14, 55, 110>>, <<15, 55, 110>>, <<28, 55, 110>>,
      <<29, 55, 110>>, <<30, 55, 110>>, <<31, 55, 110>>
    }

(* the estimate with a fault: rounded to the nearest integer *)
EstimateRounded(d, m, tracecount) == (2 * d * tracecount + m) \div (2 * m)

(* int((d / m) * tracecount) *)
EstimatedNull(d, m, tracecount) ==
    (d * tracecount) \div m
        - (IF <<d, m, tracecount>> \in FloatTruncShort THEN 1 ELSE 0)

(* the 1-based positions of the traces read by each statistic *)
Sampled2D(h) ==
    LET trace_count == MinOf(100, h.tracecount)
        indices == Linspace(h.tracecount, trace_count)
    IN  [i \in 1..trace_count |-> indices[i] + 1]

(* range(0, n_traces, step), cut at sample_size traces *)
SampledQuality3D(h) ==
    LET n_traces == h.tracecount
        sample_size == MinOf(100, n_traces)
        step == MaxOf(1, n_traces \div sample_size)
        n == MinOf(sample_size, (n_traces + step - 1) \div step)
    IN  [i \in 1..n |-> (i - 1) * step + 1]

(* range(0, tracecount, step), not cut *)
SampledCount3D(h) ==
    LET trace_count == MinOf(50, h.tracecount)
        step == MaxOf(1, h.tracecount \div trace_count)
        n == (h.tracecount + step - 1) \div step
    IN  [i \in 1..n |-> (i - 1) * step + 1]

Dead2D(trace) == AllZero(trace) \/ AllNaN(trace) \/ StdBelowEps(trace)

DeadQuality3D(trace) == AllZero(trace)

DeadCount3D(trace) == AllZero(trace) \/ AllNaN(trace)

NullCount2D(h) ==
    LET sampled == Sampled2D(h)
    IN  Cardinality({i \in DOMAIN sampled : Dead2D(h.trace[sampled[i]])})

ZeroTraces3D(h) ==
    LET sampled == SampledQuality3D(h)
    IN  Cardinality({i \in DOMAIN sampled : DeadQuality3D(h.trace[sampled[i]])})

NullCount3D(h) ==
    LET sampled == SampledCount3D(h)
    IN  Cardinality({i \in DOMAIN sampled : DeadCount3D(h.trace[sampled[i]])})

(* percent in hundredths, as formatted with .2f *)
Percent2(part, whole) == (2 * part * 10000 + whole) \div (2 * whole)

_analyze_null_traces(h) ==
    LET trace_count == MinOf(100, h.tracecount)
        estimated_null == EstimatedNull(NullCount2D(h), trace_count, h.tracecount)
    IN  [count |-> estimated_null,
         percent |-> Percent2(estimated_null, h.tracecount)]

_extract_trace_quality(h) ==
    LET estimated_null ==
            EstimatedNull(ZeroTraces3D(h), Len(SampledQuality3D(h)), h.tracecount)
    IN  [NullDeadTraces |-> estimated_null,
         ValidTraces |-> h.tracecount - estimated_null]

_count_null_traces(h) ==
    EstimatedNull(NullCount3D(h), Len(SampledCount3D(h)), h.tracecount)

----------------------------------------------------------------------------
(* Inputs of the null-trace statistics: the first dead_prefix traces are  *)
(* dead, in the kinds of a repeating pattern, the others carry signal     *)

MaxTraceCount == 102

ZeroTrace == <<0, 0>>

NaNTrace == <<NaN, NaN>>

ConstTrace == <<5, 5>>

PartNaNTrace == <<0, NaN>>

DeadPatterns ==
    { <<ZeroTrace>>, <<NaNTrace>>, <<ConstTrace>>,
      <<ZeroTrace, NaNTrace, ConstTrace, PartNaNTrace>> }

TraceHandle(n, dead_prefix, pattern) ==
    [tracecount |-> n,
     header |-> [i \in 1..n |-> LineHeader(<<0, 0>>, "none")],
     trace |-> [i \in 1..n |->
                   IF i <= dead_prefix
                   THEN pattern[((i - 1) % Len(pattern)) + 1]
                   ELSE LiveTrace]]

(* short files (every trace is read), files around the 50-trace sample   *)
(* of the 3D count, and files longer than the 100-trace samples           *)
TraceCounts == {n \in 1..MaxTraceCount : n <= 24 \/ n \in 48..52 \/ n >= 98}

TraceHandles ==
    UNION { {TraceHandle(n, k, p) : k \in 0..n, p \in DeadPatterns} : n \in TraceCounts }

InitNull ==
    /\ segy \in TraceHandles
    /\ geometry_info = NoResult
    /\ null_info = NoResult
    /\ trace_quality = NoResult
    /\ null_count_3d = NoResult
    /\ last_op = "init"
    /\ CurveIdle
    /\ ScanIdle
    /\ SettingsIdle
    /\ InfoIdle
    /\ DetectIdle
    /\ AppIdle

AnalyzeNullTraces ==
    /\ null_info' = _analyze_null_traces(segy)
    /\ geometry_info' = NoResult
    /\ trace_quality' = NoResult
    /\ null_count_3d' = NoResult
    /\ last_op' = "_analyze_null_traces"
    /\ UNCHANGED <<segy, curveVars, scanVars, settingsVars, infoVars, detectVars, appVars>>

ExtractTraceQuality ==
    /\ trace_quality' = _extract_trace_quality(segy)
    /\ geometry_info' = NoResult
    /\ null_info' = NoResult
    /\ null_count_3d' = NoResult
    /\ last_op' = "_extract_trace_quality"
    /\ UNCHANGED <<segy, curveVars, scanVars, settingsVars, infoVars, detectVars, appVars>>

CountNullTraces ==
    /\ null_count_3d' = Num(_count_null_traces(segy))
    /\ geometry_info' = NoResult
    /\ null_info' = NoResult
    /\ trace_quality' = NoResult
    /\ last_op' = "_count_null_traces"
    /\ UNCHANGED <<segy, curveVars, scanVars, settingsVars, infoVars, detectVars, appVars>>

NextNull ==
    \/ AnalyzeNullTraces
    \/ ExtractTraceQuality
    \/ CountNullTraces

SpecNull == InitNull /\ [][NextNull]_vars

(* round(num / den), ties to even, as Python's round() *)
RoundHalfEven(num, den) ==
    LET q == num \div den
        r == num % den
    IN  IF 2 * r > den THEN q + 1
        ELSE IF 2 * r < den THEN q
        ELSE IF q % 2 = 0 THEN q ELSE q + 1

(* C9 as stated: with d of the m sampled traces dead, the estimate is     *)
(* round((d/m) x tracecount), and the 3D report has Valid Traces =        *)
(* tracecount - Null/Dead Traces.                                         *)
C9_RoundedExtrapolation ==
    /\ last_op = "_analyze_null_traces" =>
          null_info.count =
              RoundHalfEven(NullCount2D(segy) * segy.tracecount, Len(Sampled2D(segy)))
    /\ last_op = "_extract_trace_quality" =>
          /\ trace_quality.NullDeadTraces =
                RoundHalfEven(ZeroTraces3D(segy) * segy.tracecount,
                              Len(SampledQuality3D(segy)))
          /\ trace_quality.ValidTraces + trace_quality.NullDeadTraces = segy.tracecount
    /\ last_op = "_count_null_traces" =>
          null_count_3d[2] =
              RoundHalfEven(NullCount3D(segy) * segy.tracecount, Len(SampledCount3D(segy)))

(* est is the truncation of (d/m) x tracecount *)
TruncatedEstimate(est, d, m, tracecount) ==
    /\ est >= 0
    /\ est * m <= d * tracecount
    /\ \/ (est + 1) * m > d * tracecount
       \/ (est + 1) * m = d * tracecount
    /\ d = 0 => est = 0
    /\ d = m => est = tracecount

(* C9 amended: with d of the m sampled traces dead, the estimate is       *)
(* int((d/m) x tracecount), truncated and not rounded: the largest        *)
(* integer not above d x tracecount / m, or one less than that quotient   *)
(* when it is an integer that the float product falls just under; and     *)
(* the 3D report has Valid Traces = tracecount - Null/Dead Traces, the    *)
(* two summing to tracecount.                                             *)
C9_TruncatedExtrapolation ==
    /\ last_op = "_analyze_null_traces" =>
          TruncatedEstimate(null_info.count, NullCount2D(segy),
                            Len(Sampled2D(segy)), segy.tracecount)
    /\ last_op = "_extract_trace_quality" =>
          /\ TruncatedEstimate(trace_quality.NullDeadTraces, ZeroTraces3D(segy),
                               Len(SampledQuality3D(segy)), segy.tracecount)
          /\ trace_quality.ValidTraces = segy.tracecount - trace_quality.NullDeadTraces
          /\ trace_quality.ValidTraces + trace_quality.NullDeadTraces = segy.tracecount
          /\ trace_quality.ValidTraces >= 0
    /\ last_op = "_count_null_traces" =>
          TruncatedEstimate(null_count_3d[2], NullCount3D(segy),
                            Len(SampledCount3D(segy)), segy.tracecount)

(* 99 of 100 sampled traces dead among 101: 99.99 is reported as 99 *)
C9_Witness ==
    /\ last_op = "_analyze_null_traces"
    /\ segy.tracecount > 100
    /\ NullCount2D(segy) = 99
    /\ null_info.count = 99

----------------------------------------------------------------------------
(* Seismic2DValidator: the coordinate-dependent metrics that detect the   *)
(* coordinate field pair themselves                                       *)

(* f"{v:.2f}" of an integer header word: hundredths *)
FmtCoord2(v) == v * 100

SeqMin(s) == SetMin(SeqRange(s))

SeqMax(s) == SetMax(SeqRange(s))

_get_coordinate_range(h) ==
    LET chosen_fields == ChosenFields(h)
    IN  IF chosen_fields = NoneVal
        THEN [x_range |-> Txt("No valid coordinates"),
              y_range |-> Txt("No valid coordinates")]
        ELSE LET coords == CollectCoords(h, chosen_fields)
                 x_coords == [i \in DOMAIN coords |-> coords[i][1]]
                 y_coords == [i \in DOMAIN coords |-> coords[i][2]]
             IN  IF Len(coords) > 0
                 THEN [x_range |-> <<"to", FmtCoord2(SeqMin(x_coords)),
                                     FmtCoord2(SeqMax(x_coords))>>,
                       y_range |-> <<"to", FmtCoord2(SeqMin(y_coords)),
                                     FmtCoord2(SeqMax(y_coords))>>]
                 ELSE [x_range |-> Txt("No valid coordinates"),
                       y_range |-> Txt("No valid coordinates")]

(* the distances between the sampled traces and their successors, for the *)
(* pairs where both traces carry a coordinate and the distance is not 0   *)
Spacings(h, f) ==
    LET sample_size == MinOf(200, h.tracecount - 1)
        indices == Linspace(h.tracecount - 1, sample_size)
        distance(i) == Sqrt(SqDist(h.header[indices[i] + 1][f],
                                   h.header[indices[i] + 2][f]))
        counted(i) == /\ ValidCoord(h.header[indices[i] + 1][f])
                      /\ ValidCoord(h.header[indices[i] + 2][f])
                      /\ distance(i) > 0
    IN  [j \in 1..Cardinality({i \in 1..sample_size : counted(i)}) |->
            distance(CHOOSE i \in 1..sample_size :
                        /\ counted(i)
                        /\ Cardinality({k \in 1..i : counted(k)}) = j)]

RECURSIVE SeqSum(_, _)
SeqSum(s, i) == IF i > Len(s) THEN 0 ELSE s[i] + SeqSum(s, i + 1)

(* np.mean *)
Mean(s) == SeqSum(s, 1) \div Len(s)

_calculate_trace_spacing(h) ==
    LET chosen_fields == ChosenFields(h)
    IN  IF chosen_fields = NoneVal
        THEN [average |-> Txt("No valid coordinates"),
              min |-> Txt("No valid coordinates"),
              max |-> Txt("No valid coordinates")]
        ELSE LET spacings == Spacings(h, chosen_fields)
             IN  IF Len(spacings) > 0
                 THEN [average |-> Num(FmtMetres2(Mean(spacings))),
                       min |-> Num(FmtMetres2(SeqMin(spacings))),
                       max |-> Num(FmtMetres2(SeqMax(spacings)))]
                 ELSE [average |-> Txt("No valid coordinates"),
                       min |-> Txt("No valid coordinates"),
                       max |-> Txt("No valid coordinates")]

----------------------------------------------------------------------------
(* Inputs of the field detection: every candidate pair carries its own    *)
(* run of valid coordinates, of its own length and at its own place in    *)
(* the file; the three pairs are told apart by their northing and by the  *)
(* distance between neighbouring traces                                   *)

MaxDetectTraces == 56

PairStep(f) == CASE f = "CDP" -> 1 [] f = "Source" -> 2 [] f = "Group" -> 3

PairNorthing(f) == CASE f = "CDP" -> 1 [] f = "Source" -> 2 [] f = "Group" -> 3

(* run[f] = <<offset, count>>: traces offset+1 .. offset+count are valid *)
DetectHeader(i, run) ==
    [f \in {"CDP", "Source", "Group"} |->
        IF i > run[f][1] /\ i <= run[f][1] + run[f][2]
        THEN <<1000 * PairStep(f) + PairStep(f) * i, PairNorthing(f)>>
        ELSE <<0, 0>>]

DetectHandle(n, run) ==
    [tracecount |-> n,
     header |-> [i \in 1..n |-> DetectHeader(i, run)],
     trace |-> [i \in 1..n |-> LiveTrace]]

DetectCounts == {6, 7, MaxDetectTraces}

Runs(n) ==
    { r \in {0, 45, n - 5, n - 6} \X {0, 5, 6} :
        /\ r[1] >= 0
        /\ r[1] + r[2] <= n
        /\ (r[2] = 0 => r[1] = 0) }

DetectHandles ==
    UNION { {DetectHandle(n, run) : run \in [{"CDP", "Source", "Group"} -> Runs(n)]} :
            n \in DetectCounts }

InitDetect ==
    /\ segy \in DetectHandles
    /\ geometry_info = NoResult
    /\ null_info = NoResult
    /\ trace_quality = NoResult
    /\ null_count_3d = NoResult
    /\ coord_info = NoResult
    /\ spacing_info = NoResult
    /\ last_op = "init"
    /\ CurveIdle
    /\ ScanIdle
    /\ SettingsIdle
    /\ InfoIdle
    /\ AppIdle

GetCoordinateRange ==
    /\ coord_info' = _get_coordinate_range(segy)
    /\ spacing_info' = NoResult
    /\ geometry_info' = NoResult
    /\ last_op' = "_get_coordinate_range"
    /\ UNCHANGED <<segy, null_info, trace_quality, null_count_3d,
                   curveVars, scanVars, settingsVars, infoVars, appVars>>

CalculateTraceSpacing ==
    /\ spacing_info' = _calculate_trace_spacing(segy)
    /\ coord_info' = NoResult
    /\ geometry_info' = NoResult
    /\ last_op' = "_calculate_trace_spacing"
    /\ UNCHANGED <<segy, null_info, trace_quality, null_count_3d,
                   curveVars, scanVars, settingsVars, infoVars, appVars>>

DetectLineGeometry ==
    /\ geometry_info' = _calculate_line_geometry(segy)
    /\ coord_info' = NoResult
    /\ spacing_info' = NoResult
    /\ last_op' = "_calculate_line_geometry"
    /\ UNCHANGED <<segy, null_info, trace_quality, null_count_3d,
                   curveVars, scanVars, settingsVars, infoVars, appVars>>

NextDetect ==
    \/ GetCoordinateRange
    \/ CalculateTraceSpacing
    \/ DetectLineGeometry

SpecDetect == InitDetect /\ [][NextDetect]_vars

(* the number of traces among the first min(50, tracecount) whose pair f  *)
(* is not (0, 0)                                                          *)
ProbedValid(f) ==
    Cardinality({i \in DOMAIN segy.header : i <= 50 /\ segy.header[i][f] # <<0, 0>>})

(* the pair the stated rule selects, "none" when no pair qualifies *)
RuleSelects ==
    IF ProbedValid("CDP") > 5 THEN "CDP"
    ELSE IF ProbedValid("Source") > 5 THEN "Source"
    ELSE IF ProbedValid("Group") > 5 THEN "Group"
    ELSE "none"

(* the pair a result was computed from, read off the northing, the trace  *)
(* spacing or the distance between the first and the last valid trace     *)
PairOfRange ==
    IF coord_info.y_range = Txt("No valid coordinates") THEN "none"
    ELSE CHOOSE f \in {"CDP", "Source", "Group"} :
            coord_info.y_range[2] = FmtCoord2(PairNorthing(f))

PairOfSpacing ==
    IF spacing_info.average = Txt("No valid coordinates") THEN "none"
    ELSE CHOOSE f \in {"CDP", "Source", "Group"} :
            spacing_info.average = Num(100 * PairStep(f))

PairOfGeometry ==
    IF geometry_info.straight_distance = Txt("No coordinates found") THEN "none"
    ELSE CHOOSE f \in {"CDP", "Source", "Group"} :
            \E k \in 2..7 :
                /\ geometry_info.straight_distance = Num(100 * PairStep(f) * (k - 1))
                /\ k = Cardinality({i \in DOMAIN segy.header : segy.header[i][f] # <<0, 0>>})

(* C20: each of the three coordinate metrics works on the first pair, in  *)
(* the order CDP, Source, Group, that has strictly more than 5 valid      *)
(* traces among the first min(50, tracecount); a pair with exactly 5 is   *)
(* passed over, and a later pair is used only when every earlier one      *)
(* fails the threshold.                                                   *)
C20_FieldDetection ==
    /\ last_op = "_get_coordinate_range" => PairOfRange = RuleSelects
    /\ last_op = "_calculate_trace_spacing" => PairOfSpacing = RuleSelects
    /\ last_op = "_calculate_line_geometry" => PairOfGeometry = RuleSelects

(* the CDP pair has exactly 5 valid traces among the first 50 (and a      *)
(* sixth one later in the file), so the Source pair is used               *)
C20_Witness ==
    /\ last_op = "_calculate_trace_spacing"
    /\ segy.tracecount > 50
    /\ ProbedValid("CDP") = 5
    /\ Cardinality({i \in DOMAIN segy.header : segy.header[i]["CDP"] # <<0, 0>>}) = 6
    /\ ProbedValid("Source") = 6
    /\ ProbedValid("Group") = 6
    /\ PairOfSpacing = "Source"

----------------------------------------------------------------------------
(* SEG-Y handle as the information reports read it.  A handle that is not *)
(* usable is the None that read_segy_file returns for a file it could not *)
(* open: every attribute access on it raises.  A handle whose traces are  *)
(* not readable raises on segy.trace[i] and segy.header[i].               *)

(* a dictionary key or an f-string argument: an int, or the object that   *)
(* the property segy.format returns, which carries the code but is equal  *)
(* to no int                                                              *)
IntKey(c) == <<"int", c>>

FmtObject(c) == <<"fmt", c>>

(* segy.bin[segyio.BinField.Format] *)
BinFormat(h) == IntKey(h.format)

(* segy.format *)
SegyFormat(h) == FmtObject(h.format)

(* str() of an int, or of the object returned by segy.format *)
Str(k) ==
    IF k[1] = "int" THEN ToString(k[2])
    ELSE CASE k[2] = 1 -> "4-byte IBM float"
           [] k[2] = 2 -> "4-byte signed integer"
           [] k[2] = 3 -> "2-byte signed integer"
           [] k[2] = 4 -> "4-byte fixed point with gain"
           [] k[2] = 5 -> "4-byte IEEE float"
           [] k[2] = 8 -> "1-byte signed char"
           [] OTHER -> "Unknown format"

(* formats.get(format_code, default) on a dictionary with int keys *)
DictGet(table, k, default) ==
    IF k[1] = "int" /\ k[2] \in DOMAIN table THEN Txt(table[k[2]]) ELSE default

_get_format_short(format_code) ==
    DictGet((1 :> "IBM Float") @@ (2 :> "4-byte Int") @@ (3 :> "2-byte Int")
                @@ (5 :> "IEEE Float") @@ (8 :> "1-byte Int"),
            format_code, <<"Code ", Str(format_code)>>)

(* Seismic3DValidator._get_format_description *)
_get_format_description(format_code) ==
    DictGet((1 :> "IBM Float (32-bit)") @@ (2 :> "32-bit Integer")
                @@ (3 :> "16-bit Integer") @@ (5 :> "IEEE Float (32-bit)")
                @@ (8 :> "8-bit Integer"),
            format_code, <<"Unknown (Code ", Str(format_code), ")">>)

_get_sorting_description(sorting_code) ==
    DictGet((-1 :> "Other") @@ (0 :> "Unknown") @@ (1 :> "As recorded (no sorting)")
                @@ (2 :> "CDP ensemble") @@ (3 :> "Single fold continuous profile")
                @@ (4 :> "Horizontally stacked") @@ (5 :> "Common source point")
                @@ (6 :> "Common receiver point") @@ (7 :> "Common offset point")
                @@ (8 :> "Common mid-point") @@ (9 :> "Common conversion point"),
            IntKey(sorting_code), <<"Unknown (", ToString(sorting_code), ")">>)

(* segyio.dt(segy): the sample interval in microseconds, 4000.0 when the  *)
(* headers do not give one                                                *)
SegyioDt(h) == IF h.interval > 0 THEN h.interval ELSE 4000

(* str(e) of the exception that was caught *)
ExcText == <<"str(e)">>

(* One guarded block: the assignments info[key] = value in program order, *)
(* each able to raise; the block keeps what was assigned before the first *)
(* one that raises and records the exception under err_key.               *)
Step(k, ok, v) == [key |-> k, ok |-> ok, value |-> v]

FirstFail(steps) ==
    IF \E i \in DOMAIN steps : ~steps[i].ok
    THEN SetMin({i \in DOMAIN steps : ~steps[i].ok})
    ELSE Len(steps) + 1

Assigned(steps) ==
    LET done == {i \in DOMAIN steps : i < FirstFail(steps)}
    IN  [k \in {steps[i].key : i \in done} |->
            steps[SetMax({i \in done : steps[i].key = k})].value]

Guarded(steps, err_key) ==
    IF FirstFail(steps) <= Len(steps)
    THEN (err_key :> ExcText) @@ Assigned(steps)
    ELSE Assigned(steps)

(* f"{a} - {b}" and the like: the text between the values, then the values *)
Range(sep, a, b) == <<sep, a, b>>

RoundDiv(a, b) == (2 * a + b) \div (2 * b)

----------------------------------------------------------------------------
(* Seismic3DValidator: get_basic_info and get_comprehensive_info          *)

RECURSIVE Flatten(_, _)
Flatten(traces, i) ==
    IF i > Len(traces) THEN <<>> ELSE traces[i] \o Flatten(traces, i + 1)

(* a statistic that is carried as a term over the samples it is computed  *)
(* from: np.nanmean, np.nanstd, np.mean, np.std, skewness, kurtosis, SNR  *)
Stat(name, data) == <<name, data>>

(* the range of a header word over the traces of _get_3d_ranges, "N/A"    *)
(* when every value is 0                                                  *)
HeaderRange(h, field) ==
    LET sample_size == MinOf(1000, h.tracecount)
        step == MaxOf(1, h.tracecount \div sample_size)
        values == {h.header[i][field] : i \in {j \in 1..h.tracecount : (j - 1) % step = 0}}
                      \ {0}
    IN  IF values # {} THEN Range("-", SetMin(values), SetMax(values)) ELSE NA

_get_3d_ranges(h) ==
    IF h.usable /\ h.readable
    THEN <<HeaderRange(h, "INLINE_3D"), HeaderRange(h, "CROSSLINE_3D")>>
    ELSE <<NA, NA>>

get_basic_info_3d(h) ==
    LET interval == h.interval   \* microseconds; interval / 1000.0 is in ms
    IN  Guarded(<<
            Step("filename", TRUE, IF h.usable THEN Txt(h.filename) ELSE NA),
            Step("trace_count", h.usable, Num(h.tracecount)),
            Step("sample_count", h.usable, Num(h.samples)),
            Step("sample_interval", h.usable, Num(RoundDiv(interval, 10))),
            Step("trace_length", h.usable, Num(RoundDiv((h.samples - 1) * interval, 1000))),
            Step("format", h.usable, _get_format_short(BinFormat(h))),
            Step("inline_range", h.usable, _get_3d_ranges(h)[1]),
            Step("crossline_range", h.usable, _get_3d_ranges(h)[2]) >>,
        "error")

_extract_basic_info(h) ==
    LET dt_microsec == SegyioDt(h)
        \* trace_length_ms = samples_per_trace * dt_microsec / 1000
        length_us == h.samples * dt_microsec
    IN  Guarded(<<
            Step("Filename", TRUE, IF h.usable THEN Txt(h.filename) ELSE NA),
            Step("Total Traces", h.usable, Num(h.tracecount)),
            Step("Samples per Trace", h.usable, Num(h.samples)),
            Step("Sample Interval (ms)", h.usable, Num(dt_microsec)),
            IF length_us > 10000 * 1000
            THEN Step("Trace Length (s)", h.usable, Num(RoundDiv(length_us, 1000)))
            ELSE Step("Trace Length (ms)", h.usable, Num(RoundDiv(length_us, 10))),
            Step("Time Range", h.usable, Range("0 - ms", 0, RoundDiv(length_us, 10))),
            Step("Data Format", h.usable, _get_format_description(SegyFormat(h))),
            Step("Sorting", h.usable, _get_sorting_description(h.sorting)) >>,
        "Basic Info Error")

(* list(segy.ilines) raises for the None handle and for a file opened     *)
(* without a geometry, where segy.ilines is None                          *)
AxisRange(h, axis) ==
    IF h.usable /\ h.structured /\ Len(axis) > 0
    THEN Range(" - ", SetMin(SeqRange(axis)), SetMax(SeqRange(axis)))
    ELSE Txt("Not available")

AxisSpacing(h, axis) ==
    IF ~(h.usable /\ h.structured) THEN Txt("Not available")
    ELSE IF Len(axis) > 1 THEN Num(axis[2] - axis[1])
    ELSE NA

_extract_3d_geometry(h) ==
    Guarded(<<
        Step("Inline Range", TRUE, AxisRange(h, h.ilines)),
        Step("Crossline Range", TRUE, AxisRange(h, h.xlines)),
        Step("Inline Spacing", TRUE, AxisSpacing(h, h.ilines)),
        Step("Crossline Spacing", TRUE, AxisSpacing(h, h.xlines)) >>,
        "3D Geometry Error")

(* np.fft.rfftfreq(n, dt)[argmax(|rfft(trace)|[1:]) + 1] for a trace of   *)
(* n <= 2 samples: with one sample the spectrum has no bin past DC and    *)
(* argmax raises; with two the only bin is 1 / (2 dt)                     *)
DominantFrequency3D(h) ==
    IF h.samples >= 2 THEN Num(RoundDiv(50000000, SegyioDt(h))) ELSE NA

_extract_signal_info(h) ==
    LET sampled == SampledQuality3D(h)
        traces == Flatten([i \in DOMAIN sampled |-> h.trace[sampled[i]]], 1)
        read == h.usable /\ h.readable
    IN  Guarded(<<
            Step("Amplitude Range", read, Range(" to ", NanMin(traces), NanMax(traces))),
            Step("Amplitude Mean", read, Stat("nanmean", traces)),
            Step("Amplitude Std Dev", read, Stat("nanstd", traces)),
            Step("Nyquist Frequency (Hz)", read, Num(RoundDiv(50000000, SegyioDt(h)))),
            Step("Dominant Frequency (Hz)", read, DominantFrequency3D(h)) >>,
        "Signal Info Error")

TraceQualityInfo(h) ==
    LET read == h.usable /\ h.readable
    IN  Guarded(<<
            Step("Null/Dead Traces", read, Num(_extract_trace_quality(h).NullDeadTraces)),
            Step("Valid Traces", read, Num(_extract_trace_quality(h).ValidTraces)) >>,
        "Trace Quality Error")

MeasurementSystem3D(h) ==
    DictGet((1 :> "Meters") @@ (2 :> "Feet"), IntKey(h.measurement),
            <<"Unknown (", ToString(h.measurement), ")">>)

_extract_binary_header(h) ==
    Guarded(<<
        Step("Binary Format Code", h.usable, Txt(Str(SegyFormat(h)))),
        Step("Trace Sorting", TRUE,
             IF h.usable THEN _get_sorting_description(h.sorting) ELSE Txt("Not available")),
        Step("Endian Type", TRUE, Txt("Big Endian (SEG-Y standard)")),
        Step("Measurement System", TRUE,
             IF h.usable THEN MeasurementSystem3D(h) ELSE Txt("Not available")) >>,
        "Binary Header Error")

_extract_volume_stats(h) ==
    Guarded(<<
        Step("Estimated Volume", TRUE,
             IF h.usable /\ h.structured /\ Len(h.ilines) > 0 /\ Len(h.xlines) > 0
             THEN Range(" x traces", Len(h.ilines), Len(h.xlines))
             ELSE NA) >>,
        "Volume Stats Error")

(* qc_info.update(...) of the six blocks in turn; every block catches its *)
(* own exceptions, so the outer guard of the method has nothing to catch  *)
get_comprehensive_info_3d(h) ==
    _extract_volume_stats(h) @@ _extract_binary_header(h) @@ TraceQualityInfo(h)
        @@ _extract_signal_info(h) @@ _extract_3d_geometry(h) @@ _extract_basic_info(h)

----------------------------------------------------------------------------
(* Seismic2DValidator.get_comprehensive_info                              *)

(* Seismic2DValidator._get_format_description *)
FormatDescription2D(format_code) ==
    DictGet((1 :> "4-byte IBM floating-point") @@ (2 :> "4-byte signed integer")
                @@ (3 :> "2-byte signed integer") @@ (5 :> "4-byte IEEE floating-point")
                @@ (8 :> "1-byte signed integer"),
            format_code, <<"Unknown (", Str(format_code), ")">>)

_get_cdp_range(h) ==
    IF ~(h.usable /\ h.readable) THEN NA
    ELSE LET first_cdp == h.header[1]["CDPNumber"]
             last_cdp == h.header[h.tracecount]["CDPNumber"]
         IN  IF first_cdp = 0 /\ last_cdp = 0
             THEN Range(" - ", h.header[1]["FieldRecord"],
                        h.header[h.tracecount]["FieldRecord"])
             ELSE Range(" - ", first_cdp, last_cdp)

(* the finite samples of the traces at np.linspace(0, tracecount - 1,     *)
(* min(sample_size, tracecount), dtype=int)                               *)
FiniteSamples(h, sample_size) ==
    LET trace_count == MinOf(sample_size, h.tracecount)
        indices == Linspace(h.tracecount, trace_count)
    IN  SelectSeq(Flatten([i \in 1..trace_count |-> h.trace[indices[i] + 1]], 1),
                  LAMBDA x : ~IsNaN(x))

_calculate_amplitude_stats(h) ==
    LET all_samples == FiniteSamples(h, 100)
    IN  IF h.usable /\ h.readable /\ Len(all_samples) > 0
        THEN [min |-> SeqMin(all_samples), max |-> SeqMax(all_samples),
              rms |-> Stat("rms", all_samples)]
        ELSE [min |-> 0, max |-> 0, rms |-> Stat("rms", <<>>)]

(* f"{v:.4f}" of an integer sample value, and of the 0 of a failed block  *)
FmtAmp4(v) == v * 10000

(* 1.0 / (2.0 * dt_seconds) divides by zero when the interval is 0; the   *)
(* spectrum of a trace of one sample has no bin past DC                   *)
_calculate_frequency_metrics(h) ==
    IF h.usable /\ h.readable /\ h.interval > 0 /\ h.samples >= 2
    THEN [nyquist |-> RoundDiv(50000000, h.interval),
          dominant |-> RoundDiv(50000000, h.interval)]
    ELSE [nyquist |-> 0, dominant |-> 0]

NullTraceInfo2D(h) ==
    IF h.usable /\ h.readable
    THEN Range(" (%)", _analyze_null_traces(h).count, _analyze_null_traces(h).percent)
    ELSE Range(" (%)", 0, 0)

_check_trace_length_uniformity(h) ==
    IF ~(h.usable /\ h.readable) THEN Txt("Error checking uniformity")
    ELSE LET sample_size == MinOf(10, h.tracecount)
             indices == Linspace(h.tracecount, sample_size)
             lengths == {Len(h.trace[indices[i] + 1]) : i \in 1..sample_size}
         IN  IF Cardinality(lengths) = 1 THEN Txt("Uniform")
             ELSE <<"Non-uniform ( different lengths)", Cardinality(lengths)>>

(* samples within 1e-6 of the extremes; the samples are integers here, so *)
(* within 1e-6 is equal                                                   *)
_detect_clipping(h, amp_stats) ==
    IF ~(h.usable /\ h.readable) THEN Err
    ELSE LET trace_count == MinOf(50, h.tracecount)
             indices == Linspace(h.tracecount, trace_count)
             samples == Flatten([i \in 1..trace_count |-> h.trace[indices[i] + 1]], 1)
             at(v) == Cardinality({i \in DOMAIN samples :
                                      ~IsNaN(samples[i]) /\ samples[i] = v})
             clipped_samples == at(amp_stats.max) + at(amp_stats.min)
             total_samples == Len(samples)
         IN  IF total_samples > 0 /\ clipped_samples * 100 > total_samples
             THEN <<"Yes (%)", RoundDiv(clipped_samples * 10000, total_samples)>>
             ELSE Txt("No")

_get_binary_header_info(h) ==
    IF ~h.usable
    THEN [binary |-> Err, format_code |-> Err, sorting |-> Err, endian |-> Err,
          measurement_system |-> Err]
    ELSE [binary |-> Txt("SEG-Y Rev 1"),
          format_code |-> <<"code (short)", ToString(h.format),
                            _get_format_short(BinFormat(h))>>,
          sorting |-> _get_sorting_description(h.sorting),
          endian |-> IF 100 <= h.interval /\ h.interval <= 100000
                     THEN Txt("Little Endian") ELSE Txt("Big Endian (possible)"),
          measurement_system |->
              IF h.measurement = 1 THEN Txt("Meters")
              ELSE IF h.measurement = 2 THEN Txt("Feet")
              ELSE <<"Unknown (", ToString(h.measurement), ")">>]

_calculate_signal_statistics(h) ==
    LET all_samples == FiniteSamples(h, 100)
    IN  IF h.usable /\ h.readable /\ Len(all_samples) > 0
        THEN [std_dev |-> Stat("std", all_samples), mean |-> Stat("mean", all_samples),
              skewness |-> Stat("skewness", all_samples),
              kurtosis |-> Stat("kurtosis", all_samples),
              snr |-> Stat("snr", all_samples)]
        ELSE [std_dev |-> Num(0), mean |-> Num(0), skewness |-> Num(0),
              kurtosis |-> Num(0), snr |-> Num(0)]

ErrorRecord(keys) == [k \in keys |-> Err]

get_comprehensive_info_2d(h) ==
    LET guarded == h.usable /\ h.readable
        coord_range == IF guarded THEN _get_coordinate_range(h)
                       ELSE ErrorRecord({"x_range", "y_range"})
        amp_stats == _calculate_amplitude_stats(h)
        freq == _calculate_frequency_metrics(h)
        spacing == IF guarded THEN _calculate_trace_spacing(h)
                   ELSE ErrorRecord({"average", "min", "max"})
        geometry == IF guarded
                    THEN LET g == _calculate_line_geometry(h)
                         IN  [straight_distance |-> g.straight_distance,
                              total_length |-> g.total_length,
                              sinuosity |-> g.sinuosity,
                              shape |-> Txt(g.shape), order |-> Txt(g.order)]
                    ELSE ErrorRecord({"straight_distance", "total_length", "sinuosity",
                                      "shape", "order"})
        binary == _get_binary_header_info(h)
        signal == _calculate_signal_statistics(h)
        ok == h.usable
    IN  Guarded(<<
            Step("Filename", TRUE, IF h.usable THEN Txt(h.filename) ELSE NA),
            Step("Line Name", TRUE, IF h.usable THEN Txt(h.line_name) ELSE NA),
            Step("Format", ok, FormatDescription2D(BinFormat(h))),
            Step("Trace Count", ok, Num(h.tracecount)),
            Step("Samples per Trace", ok, Num(h.samples)),
            Step("Sample Interval (ms)", ok, Num(h.interval)),
            Step("CDP Range", ok, _get_cdp_range(h)),
            Step("Coordinate Range X", ok, coord_range.x_range),
            Step("Coordinate Range Y", ok, coord_range.y_range),
            Step("Amplitude Range", ok,
                 Range(" to ", FmtAmp4(amp_stats.min), FmtAmp4(amp_stats.max))),
            Step("RMS Amplitude", ok, amp_stats.rms),
            Step("Nyquist Frequency", ok, <<"Hz", freq.nyquist>>),
            Step("Dominant Frequency", ok, <<"Hz", freq.dominant>>),
            Step("Null/Dead Traces", ok, NullTraceInfo2D(h)),
            Step("Trace Length Uniformity", ok, _check_trace_length_uniformity(h)),
            Step("Clipping Detected", ok, _detect_clipping(h, amp_stats)),
            Step("Average Trace Spacing (m)", ok, spacing.average),
            Step("Min Trace Spacing (m)", ok, spacing.min),
            Step("Max Trace Spacing (m)", ok, spacing.max),
            Step("Straight Line Distance (m)", ok, geometry.straight_distance),
            Step("Est. Total Line Length (km)", ok, geometry.total_length),
            Step("Line Sinuosity", ok, geometry.sinuosity),
            Step("Line Shape", ok, geometry.shape),
            Step("Coordinate Order", ok, geometry.order),
            Step("Binary", ok, binary.binary),
            Step("Format Code", ok, binary.format_code),
            Step("Trace Sorting", ok, binary.sorting),
            Step("Endian Type", ok, binary.endian),
            Step("Measurement System", ok, binary.measurement_system),
            Step("Signal Std Dev", ok, signal.std_dev),
            Step("Signal Mean", ok, signal.mean),
            Step("Skewness", ok, signal.skewness),
            Step("Kurtosis", ok, signal.kurtosis),
            Step("Est. SNR (dB)", ok, signal.snr) >>,
        "Error")

----------------------------------------------------------------------------
(* Inputs of the information reports *)

MaxFormatCode == 8

FormatCodes == 0..MaxFormatCode

(* a short file without coordinates, and a line of six traces with CDP    *)
(* coordinates, CDP numbers and inline / crossline numbers                *)
InfoHeader(n, i) ==
    IF n < 6
    THEN [f \in {"CDP", "Source", "Group", "CDPNumber", "FieldRecord",
                 "INLINE_3D", "CROSSLINE_3D"} |->
             IF f \in {"CDP", "Source", "Group"} THEN <<0, 0>>
             ELSE IF f = "FieldRecord" THEN 7
             ELSE 0]
    ELSE [f \in {"CDP", "Source", "Group", "CDPNumber", "FieldRecord",
                 "INLINE_3D", "CROSSLINE_3D"} |->
             CASE f = "CDP" -> <<7 * i, i * (7 - i)>>
               [] f \in {"Source", "Group"} -> <<0, 0>>
               [] f = "CDPNumber" -> 100 + i
               [] f = "FieldRecord" -> 7
               [] f = "INLINE_3D" -> 10 + (i % 2)
               [] f = "CROSSLINE_3D" -> 100]

InfoHandle(usable, format, interval, readable, structured, n, first) ==
    [usable |-> usable, filename |-> "file.sgy", line_name |-> "N/A",
     tracecount |-> n, samples |-> 2, interval |-> interval, format |-> format,
     sorting |-> 4, measurement |-> 1, readable |-> readable,
     structured |-> structured,
     ilines |-> IF structured THEN <<10, 11>> ELSE <<>>,
     xlines |-> IF structured THEN <<100>> ELSE <<>>,
     header |-> [i \in 1..n |-> InfoHeader(n, i)],
     trace |-> [i \in 1..n |-> IF i = 1 THEN first ELSE <<3, -2>>]]

(* read_segy_file returned None; the fields below are never read *)
NoneHandle == InfoHandle(FALSE, 0, 0, FALSE, FALSE, 1, ZeroTrace)

InfoHandles ==
    {NoneHandle} \cup
    { InfoHandle(TRUE, format, interval, readable, structured, n, first) :
        format \in FormatCodes, interval \in {0, 4000}, readable \in BOOLEAN,
        structured \in BOOLEAN, n \in {2, 6}, first \in {ZeroTrace, LiveTrace} }

InitInfo ==
    /\ segy \in InfoHandles
    /\ geometry_info = NoResult
    /\ null_info = NoResult
    /\ trace_quality = NoResult
    /\ null_count_3d = NoResult
    /\ InfoIdle
    /\ last_op = "init"
    /\ CurveIdle
    /\ ScanIdle
    /\ SettingsIdle
    /\ DetectIdle
    /\ AppIdle

GetBasicInfo3D ==
    /\ basic_info' = get_basic_info_3d(segy)
    /\ qc_info' = NoResult
    /\ comprehensive_info' = NoResult
    /\ clipping' = NoResult
    /\ last_op' = "3D.get_basic_info"
    /\ UNCHANGED <<segyVars, curveVars, scanVars, settingsVars, detectVars, appVars>>

GetComprehensiveInfo3D ==
    /\ qc_info' = get_comprehensive_info_3d(segy)
    /\ basic_info' = NoResult
    /\ comprehensive_info' = NoResult
    /\ clipping' = NoResult
    /\ last_op' = "3D.get_comprehensive_info"
    /\ UNCHANGED <<segyVars, curveVars, scanVars, settingsVars, detectVars, appVars>>

GetComprehensiveInfo2D ==
    /\ comprehensive_info' = get_comprehensive_info_2d(segy)
    /\ basic_info' = NoResult
    /\ qc_info' = NoResult
    /\ clipping' = NoResult
    /\ last_op' = "2D.get_comprehensive_info"
    /\ UNCHANGED <<segyVars, curveVars, scanVars, settingsVars, detectVars, appVars>>

NextInfo ==
    \/ GetBasicInfo3D
    \/ GetComprehensiveInfo3D
    \/ GetComprehensiveInfo2D

SpecInfo == InitInfo /\ [][NextInfo]_vars

(* the fixed tables of the format code, and the text for any other code *)
ShortFormatName(c) ==
    CASE c = 1 -> Txt("IBM Float") [] c = 2 -> Txt("4-byte Int")
      [] c = 3 -> Txt("2-byte Int") [] c = 5 -> Txt("IEEE Float")
      [] c = 8 -> Txt("1-byte Int") [] OTHER -> <<"Code ", ToString(c)>>

LongFormatName(c) ==
    CASE c = 1 -> Txt("IBM Float (32-bit)") [] c = 2 -> Txt("32-bit Integer")
      [] c = 3 -> Txt("16-bit Integer") [] c = 5 -> Txt("IEEE Float (32-bit)")
      [] c = 8 -> Txt("8-bit Integer")
      [] OTHER -> <<"Unknown (Code ", ToString(c), ")">>

(* C11: for a 3D handle of format code c, get_basic_info reports the      *)
(* short name of c and get_comprehensive_info reports, as "Data Format",  *)
(* the long name of c (code 5: "IEEE Float" and "IEEE Float (32-bit)"),   *)
(* codes outside 1, 2, 3, 5, 8 giving a text that carries the code.       *)
C11_FormatTables ==
    /\ (last_op = "3D.get_basic_info" /\ segy.usable)
          => basic_info["format"] = ShortFormatName(segy.format)
    /\ (last_op = "3D.get_comprehensive_info" /\ segy.usable)
          => qc_info["Data Format"] = LongFormatName(segy.format)

(* C16: for an unusable (null) handle, get_comprehensive_info of the 2D   *)
(* and of the 3D validator returns a mapping whose only key is "Error".   *)
C16_SingleErrorKey ==
    /\ (last_op = "2D.get_comprehensive_info" /\ ~segy.usable)
          => DOMAIN comprehensive_info = {"Error"}
    /\ (last_op = "3D.get_comprehensive_info" /\ ~segy.usable)
          => DOMAIN qc_info = {"Error"}

(* the handle with the sample interval and the trace data in order *)
Sound(h) == [h EXCEPT !.interval = 4000, !.readable = TRUE]

(* C17: when one metric of get_comprehensive_info fails (2D: the          *)
(* frequency metrics of a file whose sample interval is 0; 3D: the        *)
(* amplitude statistics of a file whose traces cannot be read), the key   *)
(* of that metric holds "Error" or "N/A" and every key of the report of   *)
(* the sound file is present.                                             *)
C17_MetricIsolation ==
    /\ (last_op = "2D.get_comprehensive_info" /\ segy.usable /\ segy.readable
           /\ segy.interval = 0)
          => /\ DOMAIN comprehensive_info = DOMAIN get_comprehensive_info_2d(Sound(segy))
             /\ comprehensive_info["Nyquist Frequency"] \in {Err, NA}
             /\ comprehensive_info["Dominant Frequency"] \in {Err, NA}
    /\ (last_op = "3D.get_comprehensive_info" /\ segy.usable /\ ~segy.readable)
          => /\ DOMAIN get_comprehensive_info_3d(Sound(segy)) \subseteq DOMAIN qc_info
             /\ qc_info["Amplitude Range"] \in {Err, NA}

----------------------------------------------------------------------------
(* LASFileScanner.read_las_file and SEGYFileScanner.read_segy_file        *)

MaxReadTraces == 3

(* what is at a path: a file lasio / segyio can or cannot parse *)
LasOnDisk == [name : FileNames, parses : BOOLEAN, curves : 0..2]

SegyOnDisk == [name : FileNames, parses : BOOLEAN, regular : BOOLEAN,
               tracecount : 1..MaxReadTraces]

Modes == {"2D", "3D", "", "4D"}

(* the outcome of a call: a value or an exception *)
Ok(v) == [exc |-> "", value |-> v]

Exc(e) == [exc |-> e, value |-> [none |-> TRUE]]

None == [none |-> TRUE]

(* lasio.read *)
LasioRead(f) ==
    IF f.parses THEN Ok([none |-> FALSE, name |-> f.name, curves |-> f.curves])
    ELSE Exc("LASDataError")

(* segyio.open: without ignore_geometry the inline / crossline axes are   *)
(* inferred; when that fails and strict is off the handle is returned     *)
(* without them                                                           *)
SegyioOpen(f, ignore_geometry, strict) ==
    LET handle(structured) ==
            [none |-> FALSE, name |-> f.name, tracecount |-> f.tracecount,
             structured |-> structured, mmap |-> FALSE]
    IN  IF ~f.parses THEN Exc("OSError")
        ELSE IF ignore_geometry THEN Ok(handle(FALSE))
        ELSE IF f.regular THEN Ok(handle(TRUE))
        ELSE IF strict THEN Exc("ValueError")
        ELSE Ok(handle(FALSE))

(* segy.mmap() *)
Mmap(r) == IF r.exc # "" THEN r ELSE Ok([r.value EXCEPT !.mmap = TRUE])

(* the try block of read_segy_file with a fault: strict inference *)
OpenByModeStrict(f, mode) ==
    CASE mode = "2D" -> SegyioOpen(f, TRUE, TRUE)
      [] mode = "3D" -> Mmap(SegyioOpen(f, FALSE, TRUE))
      [] OTHER -> Exc("UnboundLocalError")

(* the try block of read_segy_file: with a mode other than '2D' and '3D'  *)
(* the name segy is unbound at the return                                 *)
OpenByMode(f, mode) ==
    CASE mode = "2D" -> SegyioOpen(f, TRUE, TRUE)
      [] mode = "3D" -> Mmap(SegyioOpen(f, FALSE, FALSE))
      [] OTHER -> Exc("UnboundLocalError")

(* except Exception: return None *)
Returned(v) == [outcome |-> "return", value |-> v]

read_las_file(f) ==
    LET r == LasioRead(f)
    IN  IF r.exc # "" THEN Returned(None)
        ELSE IF r.value.curves = 0 THEN Returned(None)
        ELSE Returned(r.value)

read_segy_file(f, mode) ==
    LET r == OpenByMode(f, mode)
    IN  IF r.exc # "" THEN Returned(None) ELSE Returned(r.value)

InitRead ==
    /\ ScanIdle
    /\ CurveIdle
    /\ SegyIdle
    /\ SettingsIdle
    /\ InfoIdle
    /\ DetectIdle
    /\ AppIdle
    /\ last_op = "init"

ReadLasFile ==
    /\ \E f \in LasOnDisk :
          read_result' = [file |-> f, mode |-> "", result |-> read_las_file(f)]
    /\ last_op' = "read_las_file"
    /\ UNCHANGED <<tree, root_is_dir, filter_text, filter_enabled, las_files, segy_files,
                   curveVars, segyVars, settingsVars, infoVars, detectVars, appVars>>

ReadSegyFile ==
    /\ \E f \in SegyOnDisk, mode \in Modes :
          read_result' = [file |-> f, mode |-> mode, result |-> read_segy_file(f, mode)]
    /\ last_op' = "read_segy_file"
    /\ UNCHANGED <<tree, root_is_dir, filter_text, filter_enabled, las_files, segy_files,
                   curveVars, segyVars, settingsVars, infoVars, detectVars, appVars>>

NextRead ==
    \/ ReadLasFile
    \/ ReadSegyFile

SpecRead == InitRead /\ [][NextRead]_vars

ReadDone == last_op \in {"read_las_file", "read_segy_file"}

----------------------------------------------------------------------------
(* SettingsDialog, LogDataCheckerTab.update_settings and                  *)
(* CurveValidator.update_config                                           *)

(* a parsed JSON value offered as configuration: entries keeps the items  *)
(* of a mapping in order; the flags say what isinstance and "in" find     *)
JsonEntry(k, a, d) ==
    [key |-> k, aliases |-> a, description |-> d, is_dict |-> TRUE,
     has_aliases |-> TRUE, has_description |-> TRUE, aliases_is_list |-> TRUE]

JsonDoc(entries) == [parses |-> TRUE, is_dict |-> TRUE, entries |-> entries]

(* a JSON number inside an aliases list *)
JsonNumber == "<number 1>"

IsStr(x) == x # JsonNumber

(* LogDataCheckerTab._get_default_config *)
_get_default_config ==
    << JsonEntry("CALI", <<"CALI", "CAL", "CALIPER", "HCAL", "CALX">>, "Caliper"),
       JsonEntry("GR", <<"GR", "GAMMA", "GAPI">>, "Gamma Ray"),
       JsonEntry("RES D", <<"RD", "RT", "LLD", "ILD", "RILD", "ID", "IND", "RDEP">>,
                 "Resistivity Deep"),
       JsonEntry("RES S", <<"RS", "RSH", "RTS", "RESS", "LLS", "SFL", "MSFL", "SN", "LN">>,
                 "Resistivity Shallow"),
       JsonEntry("DT", <<"DT", "DTC", "AC">>, "Sonic Transit Time"),
       JsonEntry("RHOB", <<"RHOB", "RHOZ", "DEN">>, "Bulk Density"),
       JsonEntry("NPHI", <<"NPHI", "NPOR", "PHIN">>, "Neutron Porosity"),
       JsonEntry("SP", <<"SP">>, "Self Potential"),
       JsonEntry("PHID", <<"PHID", "DPHI">>, "PHID") >>

(* the default_config of SettingsDialog.reset_default *)
ResetDefaultConfig ==
    << JsonEntry("GR", <<"GR", "GAMMA", "GAPI">>, "Gamma Ray"),
       JsonEntry("DT", <<"DT", "DTC", "AC">>, "Sonic Transit Time"),
       JsonEntry("RHOB", <<"RHOB", "RHOZ", "DEN">>, "Bulk Density"),
       JsonEntry("NPHI", <<"NPHI", "NPOR", "PHIN">>, "Neutron Porosity") >>

(* the documents a user offers through a file or the editor *)
WellFormedDocs ==
    { JsonDoc(<<JsonEntry("GR", <<"gr">>, "Gamma Ray")>>),
      JsonDoc(<<JsonEntry("GR", <<"GAMMA">>, "Gamma Ray"),
                JsonEntry("RD", <<"rt", "rd">>, "Deep Resistivity")>>),
      JsonDoc(<<>>) }

EmptyAliasesDoc == JsonDoc(<<JsonEntry("GR", <<>>, "Gamma Ray")>>)

NumberAliasDoc == JsonDoc(<<JsonEntry("GR", <<JsonNumber>>, "Gamma Ray")>>)

MalformedDocs ==
    LET good == JsonEntry("DT", <<"DT">>, "Sonic")
        gr == JsonEntry("GR", <<>>, "Gamma Ray")
    IN  { [parses |-> TRUE, is_dict |-> FALSE, entries |-> <<>>],
          JsonDoc(<<[gr EXCEPT !.is_dict = FALSE, !.has_aliases = FALSE,
                               !.has_description = FALSE, !.aliases_is_list = FALSE]>>),
          JsonDoc(<<[gr EXCEPT !.has_aliases = FALSE, !.aliases_is_list = FALSE]>>),
          JsonDoc(<<[JsonEntry("GR", <<"GR">>, "") EXCEPT !.has_description = FALSE]>>),
          JsonDoc(<<[gr EXCEPT !.aliases_is_list = FALSE]>>),
          JsonDoc(<<good, [gr EXCEPT !.aliases_is_list = FALSE]>>) }

UnparsableDoc == [parses |-> FALSE, is_dict |-> FALSE, entries |-> <<>>]

JsonDocs == WellFormedDocs \cup {EmptyAliasesDoc, NumberAliasDoc} \cup MalformedDocs
                \cup {UnparsableDoc}

EntryError(value) ==
    IF ~value.is_dict THEN "Each curve config must be a dictionary"
    ELSE IF ~value.has_aliases \/ ~value.has_description
    THEN "Missing 'aliases' or 'description'"
    ELSE IF ~value.aliases_is_list THEN "'aliases' must be a list"
    ELSE ""

(* _validate_config with a fault: the type of aliases is not checked *)
ValidateConfigNoListCheck(config) ==
    IF ~config.is_dict THEN "ValueError"
    ELSE IF \E i \in DOMAIN config.entries :
                 EntryError(config.entries[i]) \notin {"", "'aliases' must be a list"}
    THEN "ValueError"
    ELSE NoneVal

(* SettingsDialog._validate_config: the exception it raises, or NoneVal *)
_validate_config(config) ==
    IF ~config.is_dict THEN "ValueError"
    ELSE IF \E i \in DOMAIN config.entries : EntryError(config.entries[i]) # ""
    THEN "ValueError"
    ELSE NoneVal

(* update_config with a fault: the entries of the old config whose key is *)
(* not in the new one are kept                                            *)
UpdateConfigMerge(old_config, new_config) ==
    new_config \o SelectSeq(old_config, LAMBDA e : e.key \notin ConfigKeys(new_config))

(* update_config with a fault: the validator keeps its config *)
UpdateConfigKeep(old_config, new_config) == old_config

(* CurveValidator.update_config: self.curve_config = new_config *)
update_config(old_config, new_config) == new_config

(* alias.upper() of _find_curve_alias raises AttributeError for an alias  *)
(* that is not a string, unless an earlier alias was found                *)
RECURSIVE AliasRaisesFrom(_, _, _)
AliasRaisesFrom(aliases, available_curves, i) ==
    IF i > Len(aliases) THEN FALSE
    ELSE IF ~IsStr(aliases[i]) THEN TRUE
    ELSE IF Upper(aliases[i]) \in DOMAIN available_curves THEN FALSE
    ELSE AliasRaisesFrom(aliases, available_curves, i + 1)

(* the exception that leaves the loop over curve_config.items() of        *)
(* validate_las_file and get_detailed_curve_info, or NoneVal              *)
CurveLoopRaises(config, h) ==
    IF \E i \in DOMAIN config : AliasRaisesFrom(config[i].aliases, AvailableCurves(h), 1)
    THEN "AttributeError" ELSE NoneVal

SettingsHandles ==
    { [i \in DOMAIN heads |->
          [mnemonic |-> heads[i].mnemonic, unit |-> heads[i].unit, data |-> <<12345>>]] :
      heads \in CurveHeads }

InitSettings ==
    /\ tab_config = _get_default_config
    /\ curve_config = _get_default_config
    /\ null_value = NullValue
    /\ current_config = <<>>
    /\ dialog_open = FALSE
    /\ raised = NoneVal
    /\ offered = <<>>
    /\ message = ""
    /\ las = <<>>
    /\ results = NoResult
    /\ detailed_info = NoResult
    /\ last_op = "init"
    /\ ScanIdle
    /\ SegyIdle
    /\ InfoIdle
    /\ DetectIdle
    /\ AppIdle

(* LogDataCheckerTab.open_settings and SettingsDialog.__init__ *)
OpenSettings ==
    /\ ~dialog_open
    /\ dialog_open' = TRUE
    /\ current_config' = tab_config
    /\ offered' = <<>>
    /\ message' = ""
    /\ raised' = NoneVal
    /\ las' = <<>>
    /\ results' = NoResult
    /\ detailed_info' = NoResult
    /\ last_op' = "open_settings"
    /\ UNCHANGED <<tab_config, curve_config, null_value, scanVars, segyVars, infoVars,
                   detectVars, appVars>>

(* what browse_json and apply_edit do with the parsed document *)
Load(op, doc) ==
    /\ dialog_open
    /\ offered' = doc
    /\ IF ~doc.parses
       THEN /\ message' = "JSON Error"
            /\ UNCHANGED current_config
       ELSE IF _validate_config(doc) # NoneVal
       THEN /\ message' = "Validation Error"
            /\ UNCHANGED current_config
       ELSE /\ message' = "Success"
            /\ current_config' = doc.entries
    /\ raised' = NoneVal
    /\ las' = <<>>
    /\ results' = NoResult
    /\ detailed_info' = NoResult
    /\ last_op' = op
    /\ UNCHANGED <<dialog_open, tab_config, curve_config, null_value, scanVars, segyVars,
                   infoVars, detectVars, appVars>>

BrowseJson == \E doc \in JsonDocs : Load("browse_json", doc)

ApplyEdit == \E doc \in JsonDocs : Load("apply_edit", doc)

ResetDefault ==
    /\ dialog_open
    /\ current_config' = ResetDefaultConfig
    /\ offered' = <<>>
    /\ message' = "Reset"
    /\ raised' = NoneVal
    /\ las' = <<>>
    /\ results' = NoResult
    /\ detailed_info' = NoResult
    /\ last_op' = "reset_default"
    /\ UNCHANGED <<dialog_open, tab_config, curve_config, null_value, scanVars, segyVars,
                   infoVars, detectVars, appVars>>

(* apply_settings calls the callback, LogDataCheckerTab.update_settings,  *)
(* which calls validator.update_config, and closes the window             *)
ApplySettings ==
    /\ dialog_open
    /\ tab_config' = current_config
    /\ curve_config' = update_config(curve_config, current_config)
    /\ dialog_open' = FALSE
    /\ current_config' = <<>>
    /\ offered' = <<>>
    /\ message' = "Settings Applied"
    /\ raised' = NoneVal
    /\ las' = <<>>
    /\ results' = NoResult
    /\ detailed_info' = NoResult
    /\ last_op' = "apply_settings"
    /\ UNCHANGED <<null_value, scanVars, segyVars, infoVars, detectVars, appVars>>

(* the Cancel button: window.destroy *)
CancelSettings ==
    /\ dialog_open
    /\ dialog_open' = FALSE
    /\ current_config' = <<>>
    /\ offered' = <<>>
    /\ message' = ""
    /\ raised' = NoneVal
    /\ las' = <<>>
    /\ results' = NoResult
    /\ detailed_info' = NoResult
    /\ last_op' = "cancel"
    /\ UNCHANGED <<tab_config, curve_config, null_value, scanVars, segyVars, infoVars,
                   detectVars, appVars>>

ValidateWithSettings ==
    /\ \E h \in SettingsHandles :
          /\ las' = h
          /\ raised' = CurveLoopRaises(curve_config, h)
          /\ results' = IF CurveLoopRaises(curve_config, h) # NoneVal THEN NoResult
                        ELSE validate_las_file(curve_config, h)
    /\ detailed_info' = NoResult
    /\ offered' = <<>>
    /\ message' = ""
    /\ last_op' = "validate_las_file"
    /\ UNCHANGED <<curve_config, current_config, tab_config, dialog_open, null_value,
                   scanVars, segyVars, infoVars, detectVars, appVars>>

DetailWithSettings ==
    /\ \E h \in SettingsHandles :
          /\ las' = h
          /\ raised' = CurveLoopRaises(curve_config, h)
          /\ detailed_info' = IF CurveLoopRaises(curve_config, h) # NoneVal THEN NoResult
                              ELSE get_detailed_curve_info(curve_config, h)
    /\ results' = NoResult
    /\ offered' = <<>>
    /\ message' = ""
    /\ last_op' = "get_detailed_curve_info"
    /\ UNCHANGED <<curve_config, current_config, tab_config, dialog_open, null_value,
                   scanVars, segyVars, infoVars, detectVars, appVars>>

NextSettings ==
    \/ OpenSettings
    \/ BrowseJson
    \/ ApplyEdit
    \/ ResetDefault
    \/ ApplySettings
    \/ CancelSettings
    \/ ValidateWithSettings
    \/ DetailWithSettings

SpecSettings == InitSettings /\ [][NextSettings]_vars

(* C13: no exception escapes validate_las_file or get_detailed_curve_info *)
(* for a config that _validate_config accepted and update_config          *)
(* installed.                                                             *)
C13_NoExceptionEscapes ==
    last_op \in {"validate_las_file", "get_detailed_curve_info"} => raised = NoneVal

(* the malformed documents of the claim *)
Malformed(doc) ==
    /\ doc.parses
    /\ \/ ~doc.is_dict
       \/ \E i \in DOMAIN doc.entries :
             \/ ~doc.entries[i].is_dict
             \/ ~doc.entries[i].has_aliases
             \/ ~doc.entries[i].has_description
             \/ ~doc.entries[i].aliases_is_list

(* C14: a malformed config offered through browse_json or apply_edit is   *)
(* rejected: the step leaves the dialog's config, the tab's config and    *)
(* the validator's config as they were and shows a validation error.      *)
C14_MalformedRejected ==
    [][ (last_op' \in {"browse_json", "apply_edit"} /\ Malformed(offered'))
            => /\ current_config' = current_config
               /\ tab_config' = tab_config
               /\ curve_config' = curve_config
               /\ message' = "Validation Error" ]_vars

(* a malformed document was just rejected while the dialog holds a config *)
(* loaded earlier, and the validator still has the default                *)
C14_Witness ==
    /\ last_op \in {"browse_json", "apply_edit"}
    /\ Malformed(offered)
    /\ Len(offered.entries) = 2
    /\ message = "Validation Error"
    /\ current_config = <<JsonEntry("GR", <<"gr">>, "Gamma Ray")>>
    /\ curve_config = _get_default_config

(* C15: every entry of the validator's active config has a non-empty      *)
(* aliases list and a description.                                        *)
C15_ConfigInvariant ==
    \A i \in DOMAIN curve_config :
        /\ curve_config[i].has_aliases
        /\ curve_config[i].aliases_is_list
        /\ Len(curve_config[i].aliases) > 0
        /\ curve_config[i].has_description

(* C19: the results are keyed exactly by the keys of the config passed to *)
(* the last update_config (the tab's config), every found curve is        *)
(* resolved by an alias of that config, a key is "Not found" exactly when *)
(* none of its aliases names a curve of the file, and the null sentinel   *)
(* stays -999.25.                                                         *)
C19_WholesaleReplace ==
    LET matches(k) == {a \in SeqRange(ConfigInfo(tab_config, k).aliases) :
                          Upper(a) \in DOMAIN AvailableCurves(las)}
    IN  /\ null_value = NullValue
        /\ (last_op = "validate_las_file" /\ raised = NoneVal)
              => /\ DOMAIN results = ConfigKeys(tab_config)
                 /\ \A k \in DOMAIN results :
                       results[k].reason = <<"Not found">> <=> matches(k) = {}
        /\ (last_op = "get_detailed_curve_info" /\ raised = NoneVal)
              => /\ DOMAIN detailed_info = ConfigKeys(tab_config)
                 /\ \A k \in DOMAIN detailed_info :
                       /\ detailed_info[k].found <=> matches(k) # {}
                       /\ detailed_info[k].found
                             => detailed_info[k].mnemonic \in {Upper(a) : a \in matches(k)}
                       /\ detailed_info[k].description
                             = ConfigInfo(tab_config, k).description

(* after a replacement, a file with a GR curve is validated: GR, which    *)
(* the previous config resolved through its alias "GR", is not found, and *)
(* no key of the previous config that the new one lacks is reported       *)
C19_Witness ==
    /\ last_op = "validate_las_file"
    /\ raised = NoneVal
    /\ tab_config # _get_default_config
    /\ "GR" \in DOMAIN AvailableCurves(las)
    /\ "GR" \in DOMAIN results
    /\ results["GR"].reason = <<"Not found">>
    /\ "CALI" \notin DOMAIN results

----------------------------------------------------------------------------
(* The coordinate metrics of the 2D report without coordinates            *)

CoordinateKeys ==
    {"Coordinate Range X", "Coordinate Range Y", "Average Trace Spacing (m)",
     "Min Trace Spacing (m)", "Max Trace Spacing (m)", "Straight Line Distance (m)",
     "Est. Total Line Length (km)", "Line Sinuosity", "Line Shape", "Coordinate Order"}

NoPairQualifies ==
    /\ last_op = "2D.get_comprehensive_info"
    /\ segy.usable
    /\ segy.readable
    /\ RuleSelects = "none"

(* C21 as stated: when no coordinate pair qualifies, every                *)
(* coordinate-dependent metric of the 2D report is "No valid coordinates" *)
(* and the call does not fail.                                            *)
C21_NoCoordinatesAsStated ==
    NoPairQualifies =>
        /\ "Error" \notin DOMAIN comprehensive_info
        /\ \A k \in CoordinateKeys :
              /\ k \in DOMAIN comprehensive_info
              /\ comprehensive_info[k] = Txt("No valid coordinates")

(* C21: when no coordinate pair qualifies the call does not fail; the     *)
(* coordinate ranges and the trace spacings are "No valid coordinates",   *)
(* the straight distance and the total length are "No coordinates found", *)
(* the sinuosity is "N/A", and the shape and the order are "Unknown".     *)
C21_NoCoordinates ==
    NoPairQualifies =>
        /\ "Error" \notin DOMAIN comprehensive_info
        /\ CoordinateKeys \subseteq DOMAIN comprehensive_info
        /\ \A k \in {"Coordinate Range X", "Coordinate Range Y",
                     "Average Trace Spacing (m)", "Min Trace Spacing (m)",
                     "Max Trace Spacing (m)"} :
              comprehensive_info[k] = Txt("No valid coordinates")
        /\ comprehensive_info["Straight Line Distance (m)"] = Txt("No coordinates found")
        /\ comprehensive_info["Est. Total Line Length (km)"] = Txt("No coordinates found")
        /\ comprehensive_info["Line Sinuosity"] = Txt("N/A")
        /\ comprehensive_info["Line Shape"] = Txt("Unknown")
        /\ comprehensive_info["Coordinate Order"] = Txt("Unknown")

(* the report of a readable file none of whose pairs carries coordinates  *)
C21_Witness ==
    /\ NoPairQualifies
    /\ comprehensive_info["Coordinate Range X"] = Txt("No valid coordinates")
    /\ comprehensive_info["Line Shape"] = Txt("Unknown")

----------------------------------------------------------------------------
(* The traces the null-trace statistics read, and the traces they count   *)

(* sampled holds exactly min(sample_size, tracecount) positions, in       *)
(* range, rising from the first trace to the last in steps that differ    *)
(* by at most one                                                         *)
SpreadOverFile(sampled, sample_size, tracecount) ==
    /\ Len(sampled) = MinOf(sample_size, tracecount)
    /\ \A i \in DOMAIN sampled : sampled[i] \in 1..tracecount
    /\ sampled[1] = 1
    /\ sampled[Len(sampled)] = tracecount
    /\ \A i \in 1..(Len(sampled) - 1) : sampled[i] < sampled[i + 1]
    /\ \A i, j \in 1..(Len(sampled) - 1) :
          (sampled[i + 1] - sampled[i]) - (sampled[j + 1] - sampled[j]) \in {-1, 0, 1}

(* C22: each null-trace statistic reads exactly min(sample_size,          *)
(* tracecount) traces, at in-range positions spread linearly from the     *)
(* first trace to the last (sample_size 100 for the 2D analysis and the   *)
(* 3D trace quality, 50 for the 3D count).                                *)
C22_BoundedSampling ==
    /\ last_op = "_analyze_null_traces"
          => SpreadOverFile(Sampled2D(segy), 100, segy.tracecount)
    /\ last_op = "_extract_trace_quality"
          => SpreadOverFile(SampledQuality3D(segy), 100, segy.tracecount)
    /\ last_op = "_count_null_traces"
          => SpreadOverFile(SampledCount3D(segy), 50, segy.tracecount)

(* the number of sampled traces that are all zero, all NaN or constant *)
DeadAmong(sampled) ==
    Cardinality({i \in DOMAIN sampled :
                    \/ AllZero(segy.trace[sampled[i]])
                    \/ AllNaN(segy.trace[sampled[i]])
                    \/ StdBelowEps(segy.trace[sampled[i]])})

(* C23: in the 2D analysis, the 3D trace quality and the 3D count alike,  *)
(* a sampled trace is counted as dead iff it is all zero, all NaN or      *)
(* constant: the estimate is the one extrapolated from that count.        *)
C23_DeadCriteria ==
    /\ last_op = "_analyze_null_traces" =>
          null_info.count =
              EstimatedNull(DeadAmong(Sampled2D(segy)), Len(Sampled2D(segy)),
                            segy.tracecount)
    /\ last_op = "_extract_trace_quality" =>
          trace_quality.NullDeadTraces =
              EstimatedNull(DeadAmong(SampledQuality3D(segy)),
                            Len(SampledQuality3D(segy)), segy.tracecount)
    /\ last_op = "_count_null_traces" =>
          null_count_3d[2] =
              EstimatedNull(DeadAmong(SampledCount3D(segy)), Len(SampledCount3D(segy)),
                            segy.tracecount)

----------------------------------------------------------------------------
(* Seismic2DValidator._detect_clipping on the amplitude statistics that   *)
(* get_comprehensive_info passes to it                                    *)

MaxClipTraces == 100

ClipCounts == {1, 2, 3, 50, 51, MaxClipTraces}

(* a file of filler traces with one trace that holds the largest sample   *)
(* at position top and one that holds the smallest at position bottom     *)
(* (0: no such trace)                                                     *)
ClipHandle(n, top, bottom, filler) ==
    [usable |-> TRUE, readable |-> TRUE, tracecount |-> n,
     header |-> [i \in 1..n |-> LineHeader(<<0, 0>>, "none")],
     trace |-> [i \in 1..n |->
                   IF i = top THEN <<9, 5>>
                   ELSE IF i = bottom THEN <<1, 5>>
                   ELSE filler]]

ClipHandles ==
    { ClipHandle(n, top, bottom, filler) :
        n \in ClipCounts, top \in {0, 1, 2},
        bottom \in {0, 3, MaxClipTraces - 1, MaxClipTraces},
        filler \in {<<5, 6>>, <<7, 7>>, <<0, 0>>} }

InitClip ==
    /\ segy \in ClipHandles
    /\ geometry_info = NoResult
    /\ null_info = NoResult
    /\ trace_quality = NoResult
    /\ null_count_3d = NoResult
    /\ InfoIdle
    /\ last_op = "init"
    /\ CurveIdle
    /\ ScanIdle
    /\ SettingsIdle
    /\ DetectIdle
    /\ AppIdle

DetectClipping ==
    /\ clipping' = _detect_clipping(segy, _calculate_amplitude_stats(segy))
    /\ last_op' = "_detect_clipping"
    /\ UNCHANGED <<basic_info, qc_info, comprehensive_info, segyVars, curveVars,
                   scanVars, settingsVars, detectVars, appVars>>

NextClip == DetectClipping

SpecClip == InitClip /\ [][NextClip]_vars

(* the samples of the 50 sampled traces that equal the smallest or the    *)
(* largest finite sample of the 100 sampled traces, each counted once     *)
ClippedOnce ==
    LET trace_count == MinOf(50, segy.tracecount)
        indices == Linspace(segy.tracecount, trace_count)
        amp == _calculate_amplitude_stats(segy)
    IN  Cardinality({ <<i, k>> \in (1..trace_count) \X (1..2) :
                        segy.trace[indices[i] + 1][k] \in {amp.min, amp.max} })

ClipTotal == 2 * MinOf(50, segy.tracecount)

(* C24: clipping counts each sample at the observed global minimum or     *)
(* maximum once and reports "Yes (pct%)" exactly when the count exceeds   *)
(* 1.0% of the samples of the sampled traces, "No" otherwise; pct is that *)
(* fraction and is at most 100.                                           *)
C24_Clipping ==
    last_op = "_detect_clipping" =>
        IF ClippedOnce * 100 > ClipTotal
        THEN /\ clipping = <<"Yes (%)", RoundDiv(ClippedOnce * 10000, ClipTotal)>>
             /\ clipping[2] <= 10000
        ELSE clipping = Txt("No")

----------------------------------------------------------------------------
(* CurveValidator.get_well_name_from_las and get_depth_info_from_las      *)

(* the value of a header item of the well section, or that the section    *)
(* has no such item                                                       *)
Absent == <<"absent">>

NoneItem == <<"None">>

StrItem(t) == <<"str", t>>

NumItem(v) == <<"number", v>>

ItemValues == {NoneItem, StrItem(""), StrItem(" "), StrItem("X-1"), NumItem(0), NumItem(1250)}

NameFields == <<"WELL", "UWI", "API", "WELLNAME", "NAME">>

KbFields == <<"KB", "EKB", "EKBD", "EDF">>

GlFields == <<"GL", "GLE", "GLELEV", "EGL">>

OtherFields == <<"STRT", "STOP", "STEP", "STRT.unit", "LMF", "ELZ", "PD", "EPD">>

WellFieldNames ==
    SeqRange(NameFields) \cup SeqRange(KbFields) \cup SeqRange(GlFields)
        \cup SeqRange(OtherFields)

(* hasattr(las.well, field) *)
HasAttr(well, field) == well[field] # Absent

(* bool(value): None, the empty string and 0 are false *)
Truthy(v) == v \notin {NoneItem, StrItem(""), NumItem(0)}

(* str(value).strip() *)
StrStrip(v) == IF v = StrItem(" ") THEN StrItem("") ELSE v

(* get_well_name_from_las with a fault: the first field present wins,     *)
(* whatever its value                                                     *)
RECURSIVE FirstPresentFrom(_, _, _)
FirstPresentFrom(well, fields, i) ==
    IF i > Len(fields) THEN NA
    ELSE IF HasAttr(well, fields[i]) THEN StrStrip(well[fields[i]])
    ELSE FirstPresentFrom(well, fields, i + 1)

WellNameFirstPresent(h) ==
    IF ~h.has_well THEN NA ELSE FirstPresentFrom(h.well, NameFields, 1)

(* the first field of the list that is present with a value that is true  *)
(* and not blank                                                          *)
RECURSIVE FirstNamed(_, _, _)
FirstNamed(well, fields, i) ==
    IF i > Len(fields) THEN NA
    ELSE IF /\ HasAttr(well, fields[i])
            /\ Truthy(well[fields[i]])
            /\ StrStrip(well[fields[i]]) # StrItem("")
    THEN StrStrip(well[fields[i]])
    ELSE FirstNamed(well, fields, i + 1)

get_well_name_from_las(h) ==
    IF ~h.has_well THEN NA ELSE FirstNamed(h.well, NameFields, 1)

(* the value of the first field of the list that is present with a value  *)
(* other than None; Absent when there is none                             *)
RECURSIVE FirstValued(_, _, _)
FirstValued(well, fields, i) ==
    IF i > Len(fields) THEN Absent
    ELSE IF HasAttr(well, fields[i]) /\ well[fields[i]] # NoneItem THEN well[fields[i]]
    ELSE FirstValued(well, fields, i + 1)

(* f"{value:.2f}" raises for None and for a string *)
Format2fRaises(v) == v = NoneItem \/ v[1] = "str"

(* float(value) raises for a string that is not a number *)
FloatRaises(v) == v[1] = "str"

(* f"{float(value):.2f}" of a number in hundredths *)
Elevation(v) == IF v = Absent THEN NA ELSE Num(v[2])

(* f"{value:}" *)
Plain(v) == IF v = NoneItem THEN Txt("None") ELSE v

DepthKeys ==
    {"depth_unit", "pd", "epd", "ekb", "egl", "lmf", "elz", "start", "stop", "step"}

DepthInfoRaises(well) ==
    \/ \E f \in {"STRT", "STOP", "STEP"} : HasAttr(well, f) /\ Format2fRaises(well[f])
    \/ \E fields \in {<<"ELZ">>, <<"EPD">>, KbFields, GlFields} :
          LET v == FirstValued(well, fields, 1)
          IN  v # Absent /\ FloatRaises(v)

(* get_depth_info_from_las with a fault: a field that cannot be formatted *)
(* is reported as "Error" on its own                                      *)
DepthInfoPerField(h) ==
    IF ~h.has_well THEN [k \in DepthKeys |-> NA]
    ELSE LET well == h.well
             two(f) == IF ~HasAttr(well, f) THEN NA
                       ELSE IF Format2fRaises(well[f]) THEN Err
                       ELSE Num(well[f][2])
             elev(fields) == IF FirstValued(well, fields, 1) # Absent
                                  /\ FloatRaises(FirstValued(well, fields, 1))
                             THEN Err ELSE Elevation(FirstValued(well, fields, 1))
         IN  [k \in DepthKeys |->
                CASE k = "start" -> two("STRT")
                  [] k = "stop" -> two("STOP")
                  [] k = "step" -> two("STEP")
                  [] k = "depth_unit" ->
                        IF HasAttr(well, "STRT") /\ Truthy(well["STRT.unit"])
                        THEN well["STRT.unit"] ELSE NA
                  [] k = "lmf" -> IF HasAttr(well, "LMF") THEN Plain(well["LMF"]) ELSE NA
                  [] k = "pd" -> IF HasAttr(well, "PD") THEN Plain(well["PD"]) ELSE NA
                  [] k = "elz" -> elev(<<"ELZ">>)
                  [] k = "epd" -> elev(<<"EPD">>)
                  [] k = "ekb" -> elev(KbFields)
                  [] k = "egl" -> elev(GlFields)]

get_depth_info_from_las(h) ==
    IF ~h.has_well THEN [k \in DepthKeys |-> NA]
    ELSE IF DepthInfoRaises(h.well) THEN [k \in DepthKeys |-> Err]
    ELSE LET well == h.well
         IN  [k \in DepthKeys |->
                CASE k = "start" -> IF HasAttr(well, "STRT") THEN Num(well["STRT"][2]) ELSE NA
                  [] k = "stop" -> IF HasAttr(well, "STOP") THEN Num(well["STOP"][2]) ELSE NA
                  [] k = "step" -> IF HasAttr(well, "STEP") THEN Num(well["STEP"][2]) ELSE NA
                  [] k = "depth_unit" ->
                        IF HasAttr(well, "STRT") /\ Truthy(well["STRT.unit"])
                        THEN well["STRT.unit"] ELSE NA
                  [] k = "lmf" -> IF HasAttr(well, "LMF") THEN Plain(well["LMF"]) ELSE NA
                  [] k = "pd" -> IF HasAttr(well, "PD") THEN Plain(well["PD"]) ELSE NA
                  [] k = "elz" -> Elevation(FirstValued(well, <<"ELZ">>, 1))
                  [] k = "epd" -> Elevation(FirstValued(well, <<"EPD">>, 1))
                  [] k = "ekb" -> Elevation(FirstValued(well, KbFields, 1))
                  [] k = "egl" -> Elevation(FirstValued(well, GlFields, 1))]

(* Inputs: well sections in which two fields of one candidate list, or    *)
(* one of the other fields, carry a value                                 *)
EmptyWell == [f \in WellFieldNames |-> Absent]

WellSections ==
    {EmptyWell}
    \cup UNION { { [EmptyWell EXCEPT ![fields[i]] = v, ![fields[j]] = w] :
                     i \in DOMAIN fields, j \in DOMAIN fields, v \in ItemValues,
                     w \in ItemValues } :
                 fields \in {NameFields, KbFields, GlFields} }
    \cup { [EmptyWell EXCEPT ![f] = v, !["STRT.unit"] = u] :
             f \in SeqRange(OtherFields) \ {"STRT.unit"}, v \in ItemValues,
             u \in {StrItem(""), StrItem("M")} }

WellHandles ==
    {[has_well |-> FALSE, well |-> EmptyWell]}
        \cup {[has_well |-> TRUE, well |-> w] : w \in WellSections}

InitWell ==
    /\ las \in WellHandles
    /\ curve_config = <<>>
    /\ results = NoResult
    /\ detailed_info = NoResult
    /\ well_name = NoResult
    /\ depth_info = NoResult
    /\ GuiIdle
    /\ last_op = "init"
    /\ ScanIdle
    /\ SegyIdle
    /\ SettingsIdle
    /\ InfoIdle
    /\ DetectIdle

GetWellNameFromLas ==
    /\ well_name' = get_well_name_from_las(las)
    /\ depth_info' = NoResult
    /\ last_op' = "get_well_name_from_las"
    /\ UNCHANGED <<curveVars, scanVars, segyVars, settingsVars, infoVars, detectVars, guiVars>>

GetDepthInfoFromLas ==
    /\ depth_info' = get_depth_info_from_las(las)
    /\ well_name' = NoResult
    /\ last_op' = "get_depth_info_from_las"
    /\ UNCHANGED <<curveVars, scanVars, segyVars, settingsVars, infoVars, detectVars, guiVars>>

NextWell ==
    \/ GetWellNameFromLas
    \/ GetDepthInfoFromLas

SpecWell == InitWell /\ [][NextWell]_vars

PresentFields(fields) == {i \in DOMAIN fields : HasAttr(las.well, fields[i])}

FirstPresent(fields) ==
    fields[CHOOSE i \in PresentFields(fields) : \A j \in PresentFields(fields) : i <= j]

(* C25 as stated: the reported Kelly Bushing, ground level and well name  *)
(* are the values of the first candidate field present in the header, and *)
(* "N/A" when no candidate is present.                                    *)
C25_FirstPresentWins ==
    LET value(fields, report(_)) ==
            IF PresentFields(fields) = {} THEN NA
            ELSE report(las.well[FirstPresent(fields)])
    IN  /\ (last_op = "get_well_name_from_las" /\ las.has_well)
              => well_name = value(NameFields, StrStrip)
        /\ (last_op = "get_depth_info_from_las" /\ las.has_well
               /\ depth_info["ekb"] # Err)
              => /\ depth_info["ekb"] = value(KbFields, Elevation)
                 /\ depth_info["egl"] = value(GlFields, Elevation)

ValuedFields(fields) ==
    {i \in DOMAIN fields : HasAttr(las.well, fields[i]) /\ las.well[fields[i]] # NoneItem}

NamedFields ==
    {i \in DOMAIN NameFields :
        /\ HasAttr(las.well, NameFields[i])
        /\ las.well[NameFields[i]] \notin
              {NoneItem, StrItem(""), StrItem(" "), NumItem(0)}}

Lowest(S) == CHOOSE i \in S : \A j \in S : i <= j

(* C25: the Kelly Bushing (ground level) is the value of the first field  *)
(* of KB, EKB, EKBD, EDF (GL, GLE, GLELEV, EGL) that is present with a    *)
(* value other than None, and the well name is the stripped value of the  *)
(* first field of WELL, UWI, API, WELLNAME, NAME that is present with a   *)
(* value that is not None, zero, empty or blank; a quantity without such  *)
(* a field is "N/A".  For the depth information this holds when no field  *)
(* fails to convert (then every value is "Error").                        *)
C25_FirstValuedWins ==
    /\ (last_op = "get_well_name_from_las" /\ las.has_well)
          => well_name = IF NamedFields = {} THEN NA
                         ELSE las.well[NameFields[Lowest(NamedFields)]]
    /\ (last_op = "get_depth_info_from_las" /\ las.has_well /\ depth_info["ekb"] # Err)
          => /\ depth_info["ekb"] =
                   IF ValuedFields(KbFields) = {} THEN NA
                   ELSE Num(las.well[KbFields[Lowest(ValuedFields(KbFields))]][2])
             /\ depth_info["egl"] =
                   IF ValuedFields(GlFields) = {} THEN NA
                   ELSE Num(las.well[GlFields[Lowest(ValuedFields(GlFields))]][2])

(* KB is present without a value and EKB, second in the order, is reported *)
C25_Witness ==
    /\ last_op = "get_depth_info_from_las"
    /\ las.has_well
    /\ las.well["KB"] = NoneItem
    /\ las.well["EKB"] = NumItem(1250)
    /\ depth_info["ekb"] = Num(1250)

(* C30: get_depth_info_from_las returns a mapping with exactly the ten    *)
(* keys; when the extraction of a field raises all ten values are         *)
(* "Error", otherwise each value is "N/A" or a formatted header value.    *)
C30_DepthInfoShape ==
    last_op = "get_depth_info_from_las" =>
        /\ DOMAIN depth_info = DepthKeys
        /\ IF las.has_well /\ DepthInfoRaises(las.well)
           THEN \A k \in DepthKeys : depth_info[k] = Err
           ELSE \A k \in DepthKeys :
                   \/ depth_info[k] = NA
                   \/ /\ depth_info[k] # Err
                      /\ depth_info[k][1] \in {"num", "str", "number", "None"}

(* a header whose KB value is not a number: every value is "Error",       *)
(* including those of fields that were not touched                        *)
C30_Witness ==
    /\ last_op = "get_depth_info_from_las"
    /\ las.has_well
    /\ las.well["KB"] = StrItem("X-1")
    /\ depth_info["start"] = Err
    /\ depth_info["ekb"] = Err

----------------------------------------------------------------------------
(* The two reports of the curve validator on the same handle and config  *)

(* the two reports of one handle under one config agree on key k *)
ReportsAgree(validation, detail, k) ==
    /\ (validation[k].reason = <<"Not found">>) <=> (detail[k].found = FALSE)
    /\ detail[k].found =>
          LET r == _validate_curve_data(las, detail[k].mnemonic)
          IN  validation[k] = [status |-> IF r[1] THEN "Y" ELSE "N", reason |-> r[2]]
    /\ (validation[k].status = "Y") <=>
          /\ detail[k].found
          /\ detail[k].percent_filled[1] = "num"
          /\ detail[k].percent_filled[2] > 0

----------------------------------------------------------------------------
(* The config of the Log tab and the config of its validator              *)

(* C28: the tab's curve_config and the validator's config are the same in *)
(* every reachable state; a step changes them only when it is Apply of    *)
(* the settings dialog (opening the dialog, loading, editing, resetting   *)
(* and cancelling leave both unchanged); and a validation that returns    *)
(* has a result for every key of the tab's config, the table columns.     *)
C28_SameConfig ==
    /\ [](/\ tab_config = curve_config
          /\ (last_op = "validate_las_file" /\ raised = NoneVal)
                => ConfigKeys(tab_config) \subseteq DOMAIN results)
    /\ [][(tab_config' # tab_config \/ curve_config' # curve_config)
             => last_op' = "apply_settings"]_vars

(* a config loaded in the dialog was applied and a scan under it returned *)
(* one result per column                                                  *)
C28_Witness ==
    /\ last_op = "validate_las_file"
    /\ raised = NoneVal
    /\ tab_config # _get_default_config
    /\ curve_config = tab_config
    /\ DOMAIN results = ConfigKeys(tab_config)

----------------------------------------------------------------------------
(* LogDataCheckerTab.scan_folder: the loop over the discovered LAS files  *)

MaxScanFiles == 2

(* a discovered file: whether lasio parses it, its curves and its header  *)
ScanFile(name, parses, curves) == [name |-> name, parses |-> parses, las |-> curves]

ScanValues == {NullValue, 12345}

ScanHeads ==
    { <<CurveHead("GR", "GAPI"), CurveHead("DT", "")>>,
      <<CurveHead("gr", "GAPI"), CurveHead("DT", "US/F")>>,
      <<CurveHead("RT", "OHMM"), CurveHead("RD", "OHMM")>> }

ScanCurves ==
    UNION { { [i \in DOMAIN heads |->
                 [mnemonic |-> heads[i].mnemonic, unit |-> heads[i].unit,
                  data |-> <<d[i]>>]] : d \in [DOMAIN heads -> ScanValues] } :
            heads \in ScanHeads }

ScanFiles ==
    { ScanFile(<<"a", ".", "l", "a", "s">>, FALSE, <<>>),
      ScanFile(<<"a", ".", "l", "a", "s">>, TRUE, <<>>) }
        \cup { ScanFile(<<"G", "R", ".", "L", "A", "S">>, TRUE, c) : c \in ScanCurves }

Folders == UNION { [1..n -> ScanFiles] : n \in 0..MaxScanFiles }

(* scanner.read_las_file(filepath) returned a handle *)
Opened(f) ==
    ~read_las_file([name |-> f.name, parses |-> f.parses, curves |-> Len(f.las)]).value.none

(* the header of the discovered files: no item of the well section set *)
ScanHeader == [has_well |-> TRUE, well |-> EmptyWell]

(* the body of the loop with a fault: a file that fails to open is not    *)
(* counted                                                                *)
ScanStepSkipFailed(config, acc, f) ==
    IF ~Opened(f) THEN acc
    ELSE LET result == validate_las_file(config, f.las)
             values == [file_name |-> f.name,
                        well_name |-> get_well_name_from_las(ScanHeader),
                        depth_info |-> get_depth_info_from_las(ScanHeader),
                        status |-> [i \in DOMAIN config |-> result[config[i].key].status]]
         IN  [rows |-> Append(acc.rows, values),
              complete |-> IF \A k \in DOMAIN result : result[k].status = "Y"
                           THEN acc.complete + 1 ELSE acc.complete,
              missing |-> IF \A k \in DOMAIN result : result[k].status = "Y"
                          THEN acc.missing ELSE acc.missing + 1]

(* the body of the loop for one file *)
ScanStep(config, acc, f) ==
    IF ~Opened(f) THEN [acc EXCEPT !.missing = @ + 1]
    ELSE LET result == validate_las_file(config, f.las)
             values == [file_name |-> f.name,
                        well_name |-> get_well_name_from_las(ScanHeader),
                        depth_info |-> get_depth_info_from_las(ScanHeader),
                        status |-> [i \in DOMAIN config |-> result[config[i].key].status]]
         IN  [rows |-> Append(acc.rows, values),
              complete |-> IF \A k \in DOMAIN result : result[k].status = "Y"
                           THEN acc.complete + 1 ELSE acc.complete,
              missing |-> IF \A k \in DOMAIN result : result[k].status = "Y"
                          THEN acc.missing ELSE acc.missing + 1]

RECURSIVE ScanLoop(_, _, _, _)
ScanLoop(config, files, i, acc) ==
    IF i > Len(files) THEN acc
    ELSE ScanLoop(config, files, i + 1, ScanStep(config, acc, files[i]))

InitLasScan ==
    /\ curve_config \in Configs
    /\ folder \in Folders
    /\ tree_rows = <<>>
    /\ counts = NoResult
    /\ HandlesIdle
    /\ las = <<>>
    /\ results = NoResult
    /\ detailed_info = NoResult
    /\ well_name = NoResult
    /\ depth_info = NoResult
    /\ last_op = "init"
    /\ ScanIdle
    /\ SegyIdle
    /\ SettingsIdle
    /\ InfoIdle
    /\ DetectIdle

(* LogDataCheckerTab.scan_folder: the table is cleared; with no file      *)
(* discovered the handler returns after the message box                   *)
ScanFolderLas ==
    /\ IF Len(folder) = 0
       THEN /\ tree_rows' = <<>>
            /\ counts' = NoResult
       ELSE LET acc == ScanLoop(curve_config, folder, 1,
                                [rows |-> <<>>, complete |-> 0, missing |-> 0])
            IN  /\ tree_rows' = acc.rows
                /\ counts' = [total |-> Len(folder), complete |-> acc.complete,
                              missing |-> acc.missing]
    /\ last_op' = "scan_folder"
    /\ UNCHANGED <<folder, handleVars, well_name, depth_info, curveVars, scanVars, segyVars,
                   settingsVars, infoVars, detectVars>>

(* LogDataCheckerTab.update_settings *)
UpdateSettingsLas ==
    /\ \E new_config \in Configs : curve_config' = update_config(curve_config, new_config)
    /\ last_op' = "update_settings"
    /\ UNCHANGED <<las, results, detailed_info, appVars, scanVars, segyVars, settingsVars,
                   infoVars, detectVars>>

NextLasScan ==
    \/ ScanFolderLas
    \/ UpdateSettingsLas

SpecLasScan == InitLasScan /\ [][NextLasScan]_vars

(* the discovered files that open and have status "Y" for every key *)
CompleteFiles ==
    {i \in DOMAIN folder :
        /\ folder[i].parses
        /\ Len(folder[i].las) > 0
        /\ \A k \in ConfigKeys(curve_config) :
              validate_las_file(curve_config, folder[i].las)[k].status = "Y"}

OpenedFiles == {i \in DOMAIN folder : folder[i].parses /\ Len(folder[i].las) > 0}

(* C29: when scan_folder has finished over a non-empty discovery list,    *)
(* complete + missing = total = the number of discovered files; the files *)
(* counted complete are those that opened with status "Y" for every       *)
(* configured key, every other file is counted missing, and the table has *)
(* one row per file that opened, none for a file that failed to open.     *)
C29_ScanAccounting ==
    (last_op = "scan_folder" /\ Len(folder) > 0) =>
        /\ counts.total = Len(folder)
        /\ counts.complete + counts.missing = counts.total
        /\ counts.complete = Cardinality(CompleteFiles)
        /\ counts.missing = Len(folder) - Cardinality(CompleteFiles)
        /\ Len(tree_rows) = Cardinality(OpenedFiles)
        /\ \A r \in DOMAIN tree_rows :
              \E i \in OpenedFiles :
                  /\ tree_rows[r].file_name = folder[i].name
                  /\ Len(tree_rows[r].status) = Len(curve_config)

(* a scan over a file that failed to open and a complete file *)
C29_Witness ==
    /\ last_op = "scan_folder"
    /\ Len(folder) = 2
    /\ ~folder[1].parses
    /\ counts = [total |-> 2, complete |-> 1, missing |-> 1]
    /\ Len(tree_rows) = 1

----------------------------------------------------------------------------
(* Seismic2DQCTab / Seismic3DQCTab: scan_folder and the detail popup, as  *)
(* the steps between which the Tk event loop can run a callback           *)

SegyScanFiles ==
    {f \in SegyOnDisk : f.name = <<"x", ".", "s", "g", "y">> /\ f.tracecount = 1}

SegyFolders == UNION { [1..n -> SegyScanFiles] : n \in 0..MaxScanFiles }

(* an open handle: the file it reads and the handler that opened it *)
Handle(file, owner) == [file |-> file, owner |-> owner]

(* segy.close() of the handle a handler opened *)
Close(handles, owner) == SelectSeq(handles, LAMBDA h : h.owner # owner)

InitHandles ==
    /\ folder \in SegyFolders
    /\ scan_mode \in {"2D", "3D"}
    /\ tree_rows = <<>>
    /\ counts = NoResult
    /\ open_handles = <<>>
    /\ scan_pc = "idle"
    /\ scan_i = 0
    /\ popup_pc = "idle"
    /\ well_name = NoResult
    /\ depth_info = NoResult
    /\ last_op = "init"
    /\ CurveIdle
    /\ ScanIdle
    /\ SegyIdle
    /\ SettingsIdle
    /\ InfoIdle
    /\ DetectIdle

(* scan_folder up to the loop: the rows are cleared, the files found; the *)
(* handler returns when there is none                                     *)
StartScan ==
    /\ scan_pc = "idle"
    /\ popup_pc = "idle"
    /\ tree_rows' = <<>>
    /\ IF Len(folder) = 0
       THEN UNCHANGED <<scan_pc, scan_i>>
       ELSE scan_pc' = "loop" /\ scan_i' = 1
    /\ last_op' = "scan_folder"
    /\ UNCHANGED <<folder, counts, open_handles, scan_mode, popup_pc, well_name, depth_info,
                   curveVars, scanVars, segyVars, settingsVars, infoVars, detectVars>>

(* one pass of the loop up to self.frame.update(): the file is opened;    *)
(* when that fails the loop continues, otherwise the row is inserted and  *)
(* the handler enters update() with the handle open.  After the last file *)
(* the status line is set and the handler returns.                        *)
ScanOpen ==
    /\ scan_pc = "loop"
    /\ popup_pc = "idle"
    /\ IF scan_i > Len(folder)
       THEN /\ scan_pc' = "idle"
            /\ UNCHANGED <<scan_i, open_handles, tree_rows>>
       ELSE IF read_segy_file(folder[scan_i], scan_mode).value.none
       THEN /\ scan_i' = scan_i + 1
            /\ UNCHANGED <<scan_pc, open_handles, tree_rows>>
       ELSE /\ open_handles' = Append(open_handles, Handle(scan_i, "scan_folder"))
            /\ tree_rows' = Append(tree_rows, [file |-> scan_i])
            /\ scan_pc' = "update"
            /\ UNCHANGED scan_i
    /\ last_op' = "scan_folder.open"
    /\ UNCHANGED <<folder, counts, scan_mode, popup_pc, well_name, depth_info,
                   curveVars, scanVars, segyVars, settingsVars, infoVars, detectVars>>

(* self.frame.update() returns and segy.close() ends the pass *)
ScanClose ==
    /\ scan_pc = "update"
    /\ popup_pc = "idle"
    /\ open_handles' = Close(open_handles, "scan_folder")
    /\ scan_i' = scan_i + 1
    /\ scan_pc' = "loop"
    /\ last_op' = "scan_folder.close"
    /\ UNCHANGED <<folder, tree_rows, counts, scan_mode, popup_pc, well_name, depth_info,
                   curveVars, scanVars, segyVars, settingsVars, infoVars, detectVars>>

(* on_row_double_click, run by the event loop (mainloop, or update() of a *)
(* running scan): the popup constructor opens the file of the row; when   *)
(* that fails the 2D popup is destroyed, the 3D popup shows no ranges     *)
PopupOpen ==
    /\ popup_pc = "idle"
    /\ scan_pc \in {"idle", "update"}
    /\ \E r \in DOMAIN tree_rows :
          IF read_segy_file(folder[tree_rows[r].file], scan_mode).value.none
          THEN UNCHANGED <<open_handles, popup_pc>>
          ELSE /\ open_handles' = Append(open_handles, Handle(tree_rows[r].file, "popup"))
               /\ popup_pc' = "info"
    /\ last_op' = "popup.open"
    /\ UNCHANGED <<folder, tree_rows, counts, scan_mode, scan_pc, scan_i, well_name,
                   depth_info, curveVars, scanVars, segyVars, settingsVars, infoVars,
                   detectVars>>

(* the popup constructor after get_comprehensive_info: segy.close() *)
PopupClose ==
    /\ popup_pc = "info"
    /\ open_handles' = Close(open_handles, "popup")
    /\ popup_pc' = "idle"
    /\ last_op' = "popup.close"
    /\ UNCHANGED <<folder, tree_rows, counts, scan_mode, scan_pc, scan_i, well_name,
                   depth_info, curveVars, scanVars, segyVars, settingsVars, infoVars,
                   detectVars>>

NextHandles ==
    \/ StartScan
    \/ ScanOpen
    \/ ScanClose
    \/ PopupOpen
    \/ PopupClose

SpecHandles == InitHandles /\ [][NextHandles]_vars

(* C26: at most one SEG-Y handle is open at any time, no handle opened by *)
(* the scan is open when the scan opens the next file, and no handle is   *)
(* open when no scan and no popup request is running.                     *)
C26_OneHandleAtATime ==
    /\ Len(open_handles) <= 1
    /\ scan_pc = "loop" => \A i \in DOMAIN open_handles : open_handles[i].owner # "scan_folder"
    /\ (scan_pc = "idle" /\ popup_pc = "idle") => open_handles = <<>>

(* what does hold: each handler has at most one handle open, closes it    *)
(* before it opens the next, and leaves none behind                       *)
OneHandlePerHandler ==
    /\ \A o \in {"scan_folder", "popup"} :
          Cardinality({i \in DOMAIN open_handles : open_handles[i].owner = o}) <= 1
    /\ scan_pc \in {"idle", "loop"}
          => \A i \in DOMAIN open_handles : open_handles[i].owner # "scan_folder"
    /\ popup_pc = "idle" => \A i \in DOMAIN open_handles : open_handles[i].owner # "popup"

====
